---------------------------- MODULE Spec2Model ----------------------------
(***************************************************************************)
(* State-machine model of the URL analyzer (src/src/index.ts) and of its   *)
(* store (src/src/db/schema.ts).  Strings of the program are TLA+ strings; *)
(* the pure helpers (extractContent, the reply parser of generateSummary,  *)
(* String.includes) are computed character by character as the code does.  *)
(***************************************************************************)
EXTENDS Integers, Sequences, FiniteSets, TLC

(***************************************************************************)
(* String primitives (JavaScript String methods used by the code).  An     *)
(* operator that reads its string many times takes it through a local      *)
(* function, F[t \in STRING], so that the argument is evaluated once.      *)
(***************************************************************************)
Min(a, b) == IF a <= b THEN a ELSE b

\* s.substring(0, n)
Substring0(s, n) == SubSeq(s, 1, Min(n, Len(s)))

\* the character of s at (1-based) position i
CharAt(s, i) == SubSeq(s, i, i)

\* \s of the regular expressions
IsSpace(c) == c \in {" ", "\t", "\n", "\r"}

\* the positions at which pat occurs in s
Occurrences(s, pat) ==
    LET F[t \in STRING, q \in STRING] ==
            { i \in 1..(Len(t) - Len(q) + 1) : SubSeq(t, i, i + Len(q) - 1) = q }
    IN  F[s, pat]

SetMin(S) ==
    LET F[T \in SUBSET Int] == CHOOSE x \in T : \A y \in T : x <= y
    IN  F[S]

SetMax(S) ==
    LET F[T \in SUBSET Int] == CHOOSE x \in T : \A y \in T : x >= y
    IN  F[S]

\* s.indexOf(pat, from) as a 1-based position, 0 when there is none
IndexFrom(s, pat, from) ==
    LET F[t \in STRING, k \in Int] ==
            LET G[occ \in SUBSET Int] == IF occ = {} THEN 0 ELSE SetMin(occ)
            IN  G[{ i \in Occurrences(t, pat) : i >= k }]
    IN  F[s, from]

\* s.includes(pat)
Includes(s, pat) == Occurrences(s, pat) # {}

\* s.trim()
Trim(s) ==
    LET F[t \in STRING] ==
            LET G[keep \in SUBSET Int] ==
                    IF keep = {} THEN "" ELSE SubSeq(t, SetMin(keep), SetMax(keep))
            IN  G[{ i \in 1..Len(t) : ~IsSpace(CharAt(t, i)) }]
    IN  F[s]

\* s.replace(/pat/g, rep) for a literal pat
ReplaceAll(s, pat, rep) ==
    LET F[t \in STRING] ==
            LET G[i \in Int] ==
                    IF i = 0 THEN t
                    ELSE SubSeq(t, 1, i - 1) \o rep
                         \o F[SubSeq(t, i + Len(pat), Len(t))]
            IN  G[IndexFrom(t, pat, 1)]
    IN  F[s]

\* s.replace(/\s+/g, " ")
CollapseSpaces(s) ==
    LET F[t \in STRING] ==
            LET out(i) ==
                    IF ~IsSpace(CharAt(t, i)) THEN CharAt(t, i)
                    ELSE IF i = 1 \/ ~IsSpace(CharAt(t, i - 1)) THEN " "
                    ELSE ""
                \* the concatenation of out(lo), ..., out(hi)
                Join[lo \in Int, hi \in Int] ==
                    IF lo > hi THEN ""
                    ELSE IF lo = hi THEN out(lo)
                    ELSE Join[lo, (lo + hi) \div 2] \o Join[(lo + hi) \div 2 + 1, hi]
            IN  Join[1, Len(t)]
    IN  F[s]

\* s.split(/\s+/).filter(word => word.length > 0).length
CountWords(s) ==
    LET F[t \in STRING] ==
            Cardinality({ i \in 1..Len(t) :
                            /\ ~IsSpace(CharAt(t, i))
                            /\ (i = 1 \/ IsSpace(CharAt(t, i - 1))) })
    IN  F[s]

(***************************************************************************)
(* extractContent (index.ts 19-62).  A match is a record                   *)
(* [at, end]: the first and last position of the matched text; NoMatch     *)
(* when the pattern matches nowhere.  Markup is lower case (the i flag     *)
(* of the patterns is not exercised).                                      *)
(***************************************************************************)
NoMatch == [at |-> 0, end |-> 0]

\* leftmost match of  <name[^>]*>[\s\S]*?</name>
ElementMatch(s, name) ==
    LET open  == "<" \o name
        close == "</" \o name \o ">"
        F[t \in STRING] ==
            LET \* the last position of the match that starts at i, or 0
                ends[i \in Int] ==
                    LET G[gt \in Int] ==
                            LET H[c \in Int] ==
                                    IF c = 0 THEN 0 ELSE c + Len(close) - 1
                            IN  H[IF gt = 0 THEN 0 ELSE IndexFrom(t, close, gt + 1)]
                    IN  G[IndexFrom(t, ">", i + Len(open))]
                G[ok \in SUBSET Int] ==
                    IF ok = {} THEN NoMatch
                    ELSE [at |-> SetMin(ok), end |-> ends[SetMin(ok)]]
            IN  G[{ i \in Occurrences(t, open) : ends[i] # 0 }]
    IN  F[s]

\* leftmost match of  <div[^>]*class="[^"]*word[^"]*"[^>]*>([\s\S]*?)</div>
ClassDivMatch(s, word) ==
    LET F[t \in STRING] ==
            LET none(ch, lo, hi) == \A k \in lo..hi : CharAt(t, k) # ch
                \* the positions of the closing > of an opening tag that
                \* starts at i
                tagEnds[i \in Int] ==
                    { e \in Occurrences(t, ">") :
                        \E c \in Occurrences(t, "class=\""),
                           w \in Occurrences(t, word),
                           q \in Occurrences(t, "\"") :
                            /\ i + 4 <= c /\ none(">", i + 4, c - 1)
                            /\ c + 7 <= w /\ none("\"", c + 7, w - 1)
                            /\ w + Len(word) <= q /\ none("\"", w + Len(word), q - 1)
                            /\ q < e /\ none(">", q + 1, e - 1) }
                ends[i \in Int] ==
                    LET G[cs \in SUBSET Int] == IF cs = {} THEN 0 ELSE SetMin(cs) + 5
                    IN  G[{ IndexFrom(t, "</div>", e + 1) : e \in tagEnds[i] } \ {0}]
                G[ok \in SUBSET Int] ==
                    IF ok = {} THEN NoMatch
                    ELSE [at |-> SetMin(ok), end |-> ends[SetMin(ok)]]
            IN  G[{ i \in Occurrences(t, "<div") : ends[i] # 0 }]
    IN  F[s]

\* s.replace(/<name[^>]*>[\s\S]*?<\/name>/gi, "")
RemoveElements(s, name) ==
    LET F[t \in STRING] ==
            LET G[m \in [at : Int, end : Int]] ==
                    IF m.at = 0 THEN t
                    ELSE SubSeq(t, 1, m.at - 1) \o F[SubSeq(t, m.end + 1, Len(t))]
            IN  G[ElementMatch(t, name)]
    IN  F[s]

\* s.replace(/<[^>]+>/g, " ")
StripTags(s) ==
    LET F[t \in STRING] ==
            LET G[ok \in SUBSET Int] ==
                    IF ok = {} THEN t
                    ELSE LET H[j \in Int] ==
                                SubSeq(t, 1, SetMin(ok) - 1) \o " "
                                \o F[SubSeq(t, j + 1, Len(t))]
                         IN  H[IndexFrom(t, ">", SetMin(ok) + 2)]
            IN  G[{ i \in Occurrences(t, "<") : IndexFrom(t, ">", i + 2) # 0 }]
    IN  F[s]

\* html.match(/<title[^>]*>([^<]+)<\/title>/i): the captured group, trimmed
TitleOf(html) ==
    LET F[t \in STRING] ==
            LET inner[i \in Int] ==
                    LET G[gt \in Int] ==
                            LET H[lt \in Int] ==
                                    IF lt > gt + 1 /\ SubSeq(t, lt, lt + 7) = "</title>"
                                    THEN [at |-> gt + 1, end |-> lt - 1] ELSE NoMatch
                            IN  H[IF gt = 0 THEN 0 ELSE IndexFrom(t, "<", gt + 1)]
                    IN  G[IndexFrom(t, ">", i + 6)]
                G[ok \in SUBSET Int] ==
                    IF ok = {} THEN ""
                    ELSE Trim(SubSeq(t, inner[SetMin(ok)].at, inner[SetMin(ok)].end))
            IN  G[{ i \in Occurrences(t, "<title") : inner[i].at # 0 }]
    IN  F[html]

\* the content patterns in the order the loop tries them (lines 29-35), and
\* the whole of cleanHtml when none matches (46-48)
ContentRegion(cleanHtml) ==
    LET F[t \in STRING] ==
            LET G[ms \in Seq([at : Int, end : Int])] ==
                    LET H[hit \in SUBSET Int] ==
                            IF hit = {} THEN t
                            ELSE SubSeq(t, ms[SetMin(hit)].at, ms[SetMin(hit)].end)
                    IN  H[{ k \in 1..5 : ms[k].at # 0 }]
            IN  G[<< ElementMatch(t, "article"),
                     ElementMatch(t, "main"),
                     ClassDivMatch(t, "content"),
                     ClassDivMatch(t, "post"),
                     ElementMatch(t, "body") >>]
    IN  F[cleanHtml]

\* lines 51-57
CleanText(region) ==
    Trim(ReplaceAll(ReplaceAll(ReplaceAll(ReplaceAll(
            CollapseSpaces(StripTags(region)),
            "&nbsp;", " "), "&amp;", "&"), "&lt;", "<"), "&gt;", ">"))

extractContent(html) ==
    LET F[content \in STRING] ==
            [title |-> TitleOf(html), content |-> content,
             wordCount |-> CountWords(content)]
    IN  F[CleanText(ContentRegion(
            RemoveElements(RemoveElements(html, "script"), "style")))]

(***************************************************************************)
(* generateSummary (index.ts 65-111).                                      *)
(***************************************************************************)
\* JavaScript null / undefined, SQL NULL of a text column
Null == "<null>"

\* lengthInstructions[summaryLength] || lengthInstructions.medium (66-72)
LengthInstruction(summaryLength) ==
    CASE summaryLength = "short" -> "in 2-3 sentences"
      [] summaryLength = "long"  -> "in 3-4 paragraphs with detailed analysis"
      [] OTHER                   -> "in 1-2 paragraphs"

FallbackSummaryLimit == 300

ReplySummaryLimit == 300

MaxTags == 5

\* s.split(","): the pieces between the commas, in order
SplitCommas(s) ==
    LET F[t \in STRING] ==
            LET G[cs \in SUBSET Int] ==
                    LET n == Cardinality(cs)
                        b[k \in Int] ==
                            IF k = 0 THEN 0
                            ELSE IF k = n + 1 THEN Len(t) + 1
                            ELSE CHOOSE c \in cs :
                                    Cardinality({ d \in cs : d < c }) = k - 1
                    IN  [k \in 1..(n + 1) |-> SubSeq(t, b[k - 1] + 1, b[k] - 1)]
            IN  G[Occurrences(t, ",")]
    IN  F[s]

\* result.match(/SUMMARY:\s*(.*?)(?=TAGS:|$)/s), line 97 and line 100
ReplySummary(result) ==
    LET F[at \in Int] ==
            LET G[t \in Int] ==
                    IF at = 0 THEN Substring0(result, ReplySummaryLimit)
                    ELSE Trim(SubSeq(result, at + 8,
                                     IF t = 0 THEN Len(result) ELSE t - 1))
            IN  G[IF at = 0 THEN 0 ELSE IndexFrom(result, "TAGS:", at + 8)]
    IN  F[IndexFrom(result, "SUMMARY:", 1)]

\* a parser that keeps every tag the reply names
NoTagCap(tags) == tags

\* .slice(0, 5) of line 102
TagCap(tags) == SubSeq(tags, 1, Min(MaxTags, Len(tags)))

\* result.match(/TAGS:\s*(.*?)$/s), lines 98 and 101-102
ReplyTags(result) ==
    LET F[at \in Int] ==
            LET G[pieces \in Seq(STRING)] ==
                    TagCap(SelectSeq([k \in 1..Len(pieces) |-> Trim(pieces[k])],
                                     LAMBDA t : Len(t) > 0))
            IN  G[SplitCommas(IF at = 0 THEN ""
                              ELSE Trim(SubSeq(result, at + 5, Len(result))))]
    IN  F[IndexFrom(result, "TAGS:", 1)]

\* a fallback that cuts the content without marking the cut
FallbackWithoutEllipsis(content) == Substring0(content, FallbackSummaryLimit)

\* the catch block, lines 105-110
FallbackSummary(content) ==
    IF Len(content) > FallbackSummaryLimit
    THEN Substring0(content, FallbackSummaryLimit) \o "..."
    ELSE content

\* the value generateSummary resolves to: ai is the outcome of ai.run,
\* [ok |-> TRUE, response |-> text] or [ok |-> FALSE] when it rejects
generateSummary(content, ai) ==
    IF ai.ok
    THEN [summary |-> ReplySummary(ai.response), tags |-> ReplyTags(ai.response)]
    ELSE [summary |-> FallbackSummary(content), tags |-> << >>]

\* a classification that looks for "news" first
NewsBeforeBlog(url) ==
    IF Includes(url, "news") THEN "news"
    ELSE IF Includes(url, "blog") THEN "blog"
    ELSE "article"

\* lines 166-169
ContentTypeOf(url) ==
    IF Includes(url, "blog") THEN "blog"
    ELSE IF Includes(url, "news") THEN "news"
    ELSE "article"

(***************************************************************************)
(* The environment: the request inputs, the pages the fetched sites serve  *)
(* and the replies of the text model.                                      *)
(***************************************************************************)
\* the requests in progress at one time
Procs == {1, 2}

UrlBoth == "https://site.example/blog/news-1"

UrlNews == "https://site.example/news/2"

UrlPlain == "https://site.example/a"

\* a site that cannot be reached
UrlDown == "https://down.example/x"

T10 == "lorem ipsu"

T50 == T10 \o T10 \o T10 \o T10 \o T10

T300 == T50 \o T50 \o T50 \o T50 \o T50 \o T50

\* 49 characters of text in the body
PageShort ==
    "<html><head><title>Short</title></head><body><p>"
    \o T10 \o T10 \o T10 \o T10 \o "lorem dol" \o "</p></body></html>"

\* 50 characters of text in the body
PageFifty ==
    "<html><head><title> Fifty </title></head><body><p>" \o T50
    \o "</p></body></html>"

\* 302 characters of text in an article, beside a script and a menu
PageLong ==
    "<html><head><title>Long</title><script>var x = 1;</script></head>"
    \o "<body><div class=\"menu\">menu</div><article><p>" \o T300
    \o "</p>\n<p>m</p></article></body></html>"

PageEmpty == "<html><body>  </body></html>"

\* the body of a 404 answer
PageNotFound == "<html><body><h1>Not Found</h1></body></html>"

Pages == {PageShort, PageFifty, PageLong, PageEmpty, PageNotFound}

Reply8 == "SUMMARY: Eight tags. TAGS: t1, t2, t3, t4, t5, t6, t7, t8"

ReplyGaps == "SUMMARY: Two tags.\nTAGS: alpha, , beta,, "

ReplyPlain == "A reply without the markers"

Replies == {Reply8, ReplyGaps, ReplyPlain}

Served(page) ==
    [kind |-> "response", status |-> 200, statusText |-> "OK", body |-> page]

NotFound ==
    [kind |-> "response", status |-> 404, statusText |-> "Not Found",
     body |-> PageNotFound]

Rejected == [kind |-> "reject"]

\* what fetch(url) resolves to, or that it rejects (146-150): each site
\* serves its pages, fails or is down
FetchOutcomes(url) ==
    CASE url = UrlPlain -> {Served(PageFifty), Served(PageShort)}
      [] url = UrlBoth  -> {Served(PageLong), NotFound}
      [] url = UrlNews  -> {Served(PageLong), Served(PageEmpty)}
      [] OTHER          -> {Rejected}

\* what ai.run resolves to, or that it rejects (86-94)
AiOutcomes == [ok : {TRUE}, response : Replies] \cup { [ok |-> FALSE] }

NoOptions == [generate_tags |-> FALSE, summary_length |-> Null]

WithTags == [generate_tags |-> TRUE, summary_length |-> Null]

\* The traffic of a behaviour: "mixed" is requests served concurrently by
\* all processes, "bulk" is requests served one after the other, among them
\* the batches at the size limit, "mail" is requests served one after the
\* other, among them those that ask for an email and the reads by id.
Traffics == {"mixed", "bulk", "mail"}

\* the address a request asks its summary to be sent to
EmailTo == "reader@mail.example"

\* bodies of POST /webhook/analyze: url, options, callback_url and the
\* fields the README gives at top level: email, generate_tags, summary_length
\* (a body without options has the {} of line 558, which is NoOptions)
AnalyzeBodies(t) ==
    IF t = "mail"
    THEN { [url |-> UrlNews, options |-> NoOptions, callback_url |-> Null,
            email |-> EmailTo, generate_tags |-> TRUE, summary_length |-> "short"] }
    ELSE { [url |-> Null, options |-> NoOptions, callback_url |-> Null,
            email |-> Null, generate_tags |-> FALSE, summary_length |-> Null],
           [url |-> UrlPlain, options |-> WithTags, callback_url |-> Null,
            email |-> Null, generate_tags |-> FALSE, summary_length |-> Null],
           [url |-> UrlPlain, options |-> NoOptions,
            callback_url |-> "https://hooks.example/cb",
            email |-> Null, generate_tags |-> FALSE, summary_length |-> Null] }

\* bodies of POST /webhook/batch-analyze, with 0 and 11 URLs and, in bulk
\* traffic, with 1, 2 and 10 URLs (a body without an array of urls is
\* answered as the empty array is)
BatchBodies(t) ==
    IF t = "mail"
    THEN { [urls |-> <<UrlNews>>, options |-> NoOptions, callback_url |-> Null,
            email |-> EmailTo] }
    ELSE { [urls |-> << >>, options |-> NoOptions, callback_url |-> Null,
            email |-> Null],
           [urls |-> [k \in 1..11 |-> UrlPlain], options |-> NoOptions,
            callback_url |-> Null, email |-> Null] }
         \cup (IF t = "bulk"
               THEN { [urls |-> <<UrlPlain>>, options |-> NoOptions,
                       callback_url |-> Null, email |-> Null],
                      [urls |-> <<UrlDown, UrlNews>>, options |-> WithTags,
                       callback_url |-> "https://hooks.example/cb", email |-> Null],
                      [urls |-> [k \in 1..10 |-> UrlDown], options |-> NoOptions,
                       callback_url |-> Null, email |-> Null] }
               ELSE {})

\* bodies of POST /webhook/analyze-and-email: url, email (no subject)
AnalyzeAndEmailBodies ==
    { [url |-> Null, email |-> EmailTo],
      [url |-> UrlNews, email |-> Null],
      [url |-> UrlNews, email |-> EmailTo] }

\* the arguments of tool email_analysis: url, email (no subject)
EmailToolArgs == { [url |-> UrlNews, email |-> EmailTo] }

\* the values of the binding RESEND_API_KEY: absent or a key
ResendKeys == {Null, "re_key"}

\* what the POST to api.resend.com resolves to, or that it rejects
\* (284-304): the provider accepts the message and names its delivery,
\* refuses it with a status that is not 2xx, or cannot be reached
Accepted ==
    [kind |-> "response", status |-> 200, id |-> "delivery-1", text |-> Null]

Refused ==
    [kind |-> "response", status |-> 422, id |-> Null, text |-> "invalid to"]

Unreachable ==
    [kind |-> "reject", status |-> 0, id |-> Null, text |-> Null]

EmailOutcomes == {Accepted, Refused, Unreachable}

\* the query of GET /api/tags: min_confidence and limit, each given or not
TagsQueries == [min_confidence : {Null, "0.9"}, limit : {Null, "2"}]

\* the url argument of tool analyze_url
ToolUrls == {UrlBoth}

\* the traffic in which the tool analyze_url, the deletes and the bodies of
\* AnalyzeBodies and BatchBodies that ask for no email arrive
Plain(t) == t # "mail"

\* requests the model serves in one behaviour
MaxRequests == 2

(***************************************************************************)
(* The store (schema.ts) and the state of the handlers.                    *)
(***************************************************************************)
VARIABLES
    analyzedUrls,   \* the rows of table analyzed_urls
    contentTags,    \* the rows of table content_tags
    urlSeq,         \* the AUTOINCREMENT counter of analyzed_urls.id
    tagSeq,         \* the AUTOINCREMENT counter of content_tags.id
    req,            \* per process: the request it is serving
    hnd,            \* per process: where its route or tool handler stands
    run,            \* per process: the frame of its analyzeUrl call
    resp,           \* per process: the response its handler gave
    obs,            \* per process: what its current analyzeUrl call has done
    started,        \* requests received so far
    traffic,        \* the traffic of this behaviour
    env,            \* the bindings of the worker: RESEND_API_KEY
    doc             \* a document given to extractContent, and what it returned

vars == <<analyzedUrls, contentTags, urlSeq, tagSeq, req, hnd, run, resp, obs,
          started, traffic, env, doc>>

\* an absent row: undefined in the code
NoRow == [id |-> 0]

\* NULL of the integer column word_count
NullInt == -1

\* new Date().toISOString(): the reading of the clock.  Requests served
\* one after the other arrive one tick apart; the requests of mixed
\* traffic all arrive and are served within one tick.
Now == IF traffic = "mixed" THEN 0 ELSE started

\* the row an insert into analyzed_urls creates from the values given
\* (index.ts 135-142, 215-222, 567-574; the other columns default to NULL)
NewUrlRow(id, url, status, errorMessage) ==
    [id |-> id, url |-> url, title |-> Null, content |-> Null, summary |-> Null,
     wordCount |-> NullInt, analysisDate |-> NullInt, status |-> status,
     errorMessage |-> errorMessage, contentType |-> Null, language |-> Null,
     createdAt |-> Now, updatedAt |-> Now]

\* confidence is stored in tenths: 8 is the 0.8 of line 194
TagConfidence == 8

NewTagRow(id, urlId, tag) ==
    [id |-> id, urlId |-> urlId, tag |-> tag, confidence |-> TagConfidence]

\* a table without the unique index on url
NoUniqueIndex(url) == FALSE

\* url: text("url").notNull().unique()
UniqueViolation(url) == \E r \in analyzedUrls : r.url = url

\* a column url_id without the reference
NoForeignKey(urlId) == FALSE

\* urlId ... references(() => analyzedUrls.id)
ForeignKeyViolation(urlId) == \A r \in analyzedUrls : r.id # urlId

\* db.select().from(analyzedUrls).where(eq(url)): the rows found
RowsByUrl(url) == { r \in analyzedUrls : r.url = url }

RowsById(id) == { r \in analyzedUrls : r.id = id }

\* an update that leaves the status column as it was
UpdateKeepsStatus(id, patch) ==
    { IF r.id = id
      THEN [f \in DOMAIN r |->
                IF f \in DOMAIN patch /\ f # "status" THEN patch[f] ELSE r[f]]
      ELSE r : r \in analyzedUrls }

\* an update that stamps createdAt as it stamps updatedAt
UpdateStampsCreated(id, patch) ==
    { IF r.id = id
      THEN [f \in DOMAIN r |->
                IF f \in DOMAIN patch THEN patch[f]
                ELSE IF f = "createdAt" THEN patch.updatedAt
                ELSE r[f]]
      ELSE r : r \in analyzedUrls }

\* an update that, when it writes a failure, also clears what an earlier
\* analysis had stored
FailureClearsContent(id, patch) ==
    { IF r.id = id
      THEN [f \in DOMAIN r |->
                IF f \in DOMAIN patch THEN patch[f]
                ELSE IF patch.status = "failed" /\ f \in {"title", "content", "summary"}
                     THEN Null
                     ELSE r[f]]
      ELSE r : r \in analyzedUrls }

\* db.update(analyzedUrls).set(patch).where(eq(id, id)): the table afterwards
UpdateById(id, patch) ==
    { IF r.id = id
      THEN [f \in DOMAIN r |-> IF f \in DOMAIN patch THEN patch[f] ELSE r[f]]
      ELSE r : r \in analyzedUrls }

\* db.delete(analyzedUrls).where(eq(id, id)): the rows left in analyzed_urls
UrlsAfterDelete(id) == { r \in analyzedUrls : r.id # id }

\* a foreign key without the cascade
NoCascade(id) == contentTags

\* onDelete: "cascade": the rows left in content_tags
TagsAfterDelete(id) ==
    { t \in contentTags : t.urlId \notin { r.id : r \in RowsById(id) } }

UniqueMsg == "UNIQUE constraint failed: analyzed_urls.url"

ForeignKeyMsg == "FOREIGN KEY constraint failed"

UndefinedMsg == "Cannot read properties of undefined (reading 'id')"

InsufficientMsg == "Insufficient content extracted from URL"

RejectMsg == "fetch failed"

\* a status check that lets every answer through
AnyStatusOk(o) == TRUE

\* response.ok
ResponseOk(o) == o.status \in 200..299

\* `HTTP ${response.status}: ${response.statusText}` (the status in digits)
HttpMsg(o) ==
    "HTTP " \o (IF o.status = 404 THEN "404" ELSE "200") \o ": " \o o.statusText

NoResp == [status |-> 0]

\* `Resend API error: ${response.status} ${errorData}` (the status in digits)
ResendMsg(o) ==
    "Resend API error: " \o (IF o.status = 422 THEN "422" ELSE "200") \o " " \o o.text

\* a sender that loses the delivery id the provider gave
LosesDeliveryId(o) ==
    IF o.kind = "reject" THEN [success |-> FALSE, error |-> RejectMsg]
    ELSE IF ~ResponseOk(o) THEN [success |-> FALSE, error |-> ResendMsg(o)]
    ELSE [success |-> TRUE, emailId |-> Null]

\* sendSummaryEmail (230-312), given what its POST to the provider came to:
\* it never throws, a rejected POST and a status that is not 2xx are
\* returned as { success: false, error }
sendSummaryEmail(o) ==
    IF o.kind = "reject" THEN [success |-> FALSE, error |-> RejectMsg]
    ELSE IF ~ResponseOk(o) THEN [success |-> FALSE, error |-> ResendMsg(o)]
    ELSE [success |-> TRUE, emailId |-> o.id]

\* lines 512 and 897 without a subject in the request (the pictograph
\* that starts the subject is left out)
EmailSubject(title) ==
    "Analysis: " \o (IF title \in {Null, ""} THEN "Web Content" ELSE title)

\* the entry of hnd.emails for one call of sendSummaryEmail: the arguments
\* and what the provider made of the POST
EmailCall(to, summary, o) ==
    [to |-> to, subject |-> EmailSubject(summary.title), summary |-> summary,
     provider |-> o]

\* the elements a document is made of, each with the text inside it
DocElements ==
    { [tag |-> "script",  class |-> Null,      text |-> "js"],
      [tag |-> "style",   class |-> Null,      text |-> "css"],
      [tag |-> "article", class |-> Null,      text |-> "art"],
      [tag |-> "main",    class |-> Null,      text |-> "mn"],
      [tag |-> "div",     class |-> "content", text |-> "dc"],
      [tag |-> "div",     class |-> "post",    text |-> "dp"],
      [tag |-> "section", class |-> "content", text |-> "sc"],
      [tag |-> "p",       class |-> Null,      text |-> "par"] }

\* elements in one document, at most
MaxElements == 2

\* the markup of one element
ElementHtml(e) ==
    "<" \o e.tag
    \o (IF e.class = Null THEN "" ELSE " class=\"" \o e.class \o "\"")
    \o ">" \o e.text \o "</" \o e.tag \o ">"

\* the markup of a document: its elements in order, in a body or bare
RECURSIVE ElementsHtml(_)
ElementsHtml(es) ==
    IF es = << >> THEN ""
    ELSE ElementHtml(es[1]) \o ElementsHtml(SubSeq(es, 2, Len(es)))

DocHtml(es, inBody) ==
    IF inBody THEN "<html><body>" \o ElementsHtml(es) \o "</body></html>"
    ELSE ElementsHtml(es)

\* no value yet
NoExtract == [title |-> Null, content |-> Null, wordCount |-> NullInt]

\* the documents given to extractContent
Docs ==
    { [elements |-> es, inBody |-> b, html |-> DocHtml(es, b), out |-> NoExtract] :
        es \in UNION { [1..n -> DocElements] : n \in 1..MaxElements },
        b \in BOOLEAN }

\* the document of a worker that serves requests: none
NoDoc == [elements |-> << >>, inBody |-> FALSE, html |-> "", out |-> NoExtract]

IdleRun ==
    [pc |-> "none", url |-> Null, options |-> NoOptions,
     existing |-> NoRow, urlRecord |-> NoRow, fetched |-> "none", ai |-> "none",
     reply |-> Null, title |-> Null, content |-> Null, wordCount |-> NullInt,
     summary |-> Null, tags |-> << >>, contentType |-> Null,
     updatedRecord |-> NoRow, k |-> 0, error |-> Null, result |-> NoRow]

IdleObs ==
    [fetches |-> 0, extracts |-> 0, aiCalls |-> 0, writes |-> 0, tagIds |-> {},
     contentLen |-> NullInt, posts |-> << >>, delRows |-> 0, delTags |-> 0,
     touched |-> FALSE]

\* emails: the calls of sendSummaryEmail the handler has made
IdleHnd ==
    [phase |-> "idle", i |-> 0, results |-> << >>, record |-> NoRow,
     emails |-> << >>]

NoReq ==
    [kind |-> "none", url |-> Null, urls |-> << >>, options |-> NoOptions,
     callback_url |-> Null, id |-> 0, email |-> Null, generate_tags |-> FALSE,
     summary_length |-> Null, min_confidence |-> Null, limit |-> Null]

Init ==
    /\ analyzedUrls = {}
    /\ contentTags = {}
    /\ urlSeq = 1
    /\ tagSeq = 1
    /\ req = [p \in Procs |-> NoReq]
    /\ hnd = [p \in Procs |-> IdleHnd]
    /\ run = [p \in Procs |-> IdleRun]
    /\ resp = [p \in Procs |-> NoResp]
    /\ obs = [p \in Procs |-> IdleObs]
    /\ started = 0
    /\ traffic \in Traffics
    /\ env \in [RESEND_API_KEY : IF traffic = "mail" THEN ResendKeys ELSE {"re_key"}]
    /\ doc = NoDoc

\* the frame of a call analyzeUrl(url, db, ai, options) up to its first await
StartRun(url, options) == [IdleRun EXCEPT !.pc = "select", !.url = url, !.options = options]

\* obs after process p wrote to the rows of url (own is p's new entry): every
\* other process whose analyzeUrl call is on that url has been overlapped
Overlap(p, url, own) ==
    [q \in Procs |->
        IF q = p THEN own
        ELSE IF run[q].pc # "none" /\ run[q].url = url
             THEN [obs[q] EXCEPT !.touched = TRUE]
             ELSE obs[q]]

Free(p) == hnd[p].phase \in {"idle", "done"}

\* a request is taken by the first process that is free
CanReceive(p) ==
    /\ Free(p)
    /\ \A q \in Procs : q < p => ~Free(q)
    /\ traffic \in {"bulk", "mail"} => \A q \in Procs : Free(q)
    /\ started < MaxRequests

\* the frame when the call throws msg into its catch block: the locals of
\* the try block are gone
Throw(r, msg) ==
    [IdleRun EXCEPT !.pc = "catch", !.url = r.url, !.options = r.options,
                    !.urlRecord = r.urlRecord, !.fetched = r.fetched,
                    !.ai = r.ai, !.reply = r.reply, !.error = msg]

\* the frame when the call has raised its error to the caller
Raise(r, msg) == [Throw(r, msg) EXCEPT !.pc = "raised"]

\* the frame when the call has returned result
Return(r, result) ==
    [IdleRun EXCEPT !.pc = "returned", !.url = r.url, !.options = r.options,
                    !.existing = r.existing, !.fetched = r.fetched,
                    !.ai = r.ai, !.reply = r.reply, !.tags = r.tags,
                    !.result = result]

(***************************************************************************)
(* analyzeUrl (index.ts 114-227), one action per awaited operation.        *)
(***************************************************************************)
MinContentLength == 50

\* extractContent of each page the sites serve
ExtractedPage == [h \in Pages |-> extractContent(h)]

\* a length check that also refuses content of exactly the limit
InsufficientAtLimit(content) == content = "" \/ Len(content) <= MinContentLength

\* line 159: !content || content.length < 50
Insufficient(content) == content = "" \/ Len(content) < MinContentLength

\* a lookup that never takes the completed record as the answer
NeverCompleted(existing) == FALSE

\* line 120: existing && existing.status === "completed"
IsCompleted(existing) == existing.id # 0 /\ existing.status = "completed"

\* lines 119-122: the lookup by url and the return of a completed record
Select(p) ==
    /\ run[p].pc = "select"
    /\ \E existing \in (IF RowsByUrl(run[p].url) = {} THEN {NoRow}
                        ELSE RowsByUrl(run[p].url)) :
          run' = [run EXCEPT ![p] =
                    IF IsCompleted(existing)
                    THEN Return([@ EXCEPT !.existing = existing], existing)
                    ELSE [@ EXCEPT !.pc = "upsert", !.existing = existing]]
    /\ UNCHANGED <<analyzedUrls, contentTags, urlSeq, tagSeq, req, hnd, resp, obs, started, traffic, env, doc>>

\* lines 124-143: the pending write, an update of the row found or an insert
MarkPending(p) ==
    LET r == run[p]
        w == [obs[p] EXCEPT !.writes = @ + 1]
    IN  /\ r.pc = "upsert"
        /\ IF r.existing.id # 0
           THEN /\ analyzedUrls' = UpdateById(r.existing.id,
                        [status |-> "pending", updatedAt |-> Now,
                         errorMessage |-> Null])
                /\ urlSeq' = urlSeq
                /\ run' = [run EXCEPT ![p] = [r EXCEPT !.pc = "fetch",
                        !.urlRecord = [r.existing EXCEPT !.status = "pending"]]]
                /\ obs' = Overlap(p, r.url, w)
           ELSE IF UniqueViolation(r.url)
           THEN /\ UNCHANGED <<analyzedUrls, urlSeq>>
                /\ run' = [run EXCEPT ![p] = Throw(r, UniqueMsg)]
                /\ obs' = [obs EXCEPT ![p] = w]
           ELSE /\ analyzedUrls' = analyzedUrls
                        \cup {NewUrlRow(urlSeq, r.url, "pending", Null)}
                /\ urlSeq' = urlSeq + 1
                /\ run' = [run EXCEPT ![p] = [r EXCEPT !.pc = "fetch",
                        !.urlRecord = NewUrlRow(urlSeq, r.url, "pending", Null)]]
                /\ obs' = Overlap(p, r.url, w)
        /\ UNCHANGED <<contentTags, tagSeq, req, hnd, resp, started, traffic, env, doc>>

\* what the site answered, as the frame remembers it: "ok" for a 2xx status
Answer(o) == IF o.status = 200 THEN "ok" ELSE "status"

\* lines 146-161: the GET, the status check, extractContent, the length check
Fetch(p) ==
    LET r == run[p]
    IN  /\ r.pc = "fetch"
        /\ \E o \in FetchOutcomes(r.url) :
            IF o.kind = "reject"
            THEN /\ run' = [run EXCEPT ![p] =
                            Throw([r EXCEPT !.fetched = "reject"], RejectMsg)]
                 /\ obs' = [obs EXCEPT ![p].fetches = @ + 1]
            ELSE IF ~ResponseOk(o)
            THEN /\ run' = [run EXCEPT ![p] =
                            Throw([r EXCEPT !.fetched = Answer(o)], HttpMsg(o))]
                 /\ obs' = [obs EXCEPT ![p].fetches = @ + 1]
            ELSE LET e == ExtractedPage[o.body]
                     f == [r EXCEPT !.fetched = Answer(o), !.title = e.title,
                                    !.content = e.content, !.wordCount = e.wordCount]
                 IN  /\ run' = [run EXCEPT ![p] =
                            IF Insufficient(e.content)
                            THEN Throw(f, InsufficientMsg)
                            ELSE [f EXCEPT !.pc = "summarize"]]
                     /\ obs' = [obs EXCEPT ![p].fetches = @ + 1,
                                           ![p].extracts = @ + 1,
                                           ![p].contentLen = Len(e.content)]
        /\ UNCHANGED <<analyzedUrls, contentTags, urlSeq, tagSeq, req, hnd, resp, started, traffic, env, doc>>

\* lines 163-169: generateSummary (the model call) and the content type
Summarize(p) ==
    LET r == run[p]
    IN  /\ r.pc = "summarize"
        /\ \E a \in AiOutcomes :
            LET g == generateSummary(r.content, a)
            IN  run' = [run EXCEPT ![p] = [r EXCEPT !.pc = "commit",
                        !.ai = IF a.ok THEN "ok" ELSE "failed",
                        !.reply = IF a.ok THEN a.response ELSE Null,
                        !.summary = g.summary, !.tags = g.tags,
                        !.contentType = ContentTypeOf(r.url)]]
        /\ obs' = [obs EXCEPT ![p].aiCalls = @ + 1]
        /\ UNCHANGED <<analyzedUrls, contentTags, urlSeq, tagSeq, req, hnd, resp, started, traffic, env, doc>>

\* line 188: options.generate_tags && tags.length > 0
WantsTags(options, tags) == options.generate_tags /\ Len(tags) > 0

\* lines 171-188 and 200: the update to completed, .returning(), and either
\* the return or the entry of the tag loop (which reads updatedRecord.id)
CommitSuccess(p) ==
    LET r     == run[p]
        after == UpdateById(r.urlRecord.id,
                    [title |-> r.title, content |-> r.content,
                     summary |-> r.summary, wordCount |-> r.wordCount,
                     analysisDate |-> Now, status |-> "completed",
                     contentType |-> r.contentType, language |-> "en",
                     updatedAt |-> Now])
        rows  == { x \in after : x.id = r.urlRecord.id }
        upd   == IF rows = {} THEN NoRow ELSE CHOOSE x \in rows : TRUE
    IN  /\ r.pc = "commit"
        /\ analyzedUrls' = after
        /\ run' = [run EXCEPT ![p] =
                IF ~WantsTags(r.options, r.tags)
                THEN Return(r, upd)
                ELSE IF upd = NoRow
                THEN Throw(r, UndefinedMsg)
                ELSE [r EXCEPT !.pc = "tags", !.updatedRecord = upd, !.k = 1]]
        /\ obs' = Overlap(p, r.url, [obs[p] EXCEPT !.writes = @ + 1])
        /\ UNCHANGED <<contentTags, urlSeq, tagSeq, req, hnd, resp, started, traffic, env, doc>>

\* lines 189-197: one insert of the tag loop
InsertTag(p) ==
    LET r == run[p]
    IN  /\ r.pc = "tags"
        /\ IF ForeignKeyViolation(r.updatedRecord.id)
           THEN /\ UNCHANGED <<contentTags, tagSeq>>
                /\ run' = [run EXCEPT ![p] = Throw(r, ForeignKeyMsg)]
                /\ obs' = [obs EXCEPT ![p].writes = @ + 1]
           ELSE /\ contentTags' = contentTags
                        \cup {NewTagRow(tagSeq, r.updatedRecord.id, r.tags[r.k])}
                /\ tagSeq' = tagSeq + 1
                /\ run' = [run EXCEPT ![p] =
                        IF r.k = Len(r.tags)
                        THEN Return(r, r.updatedRecord)
                        ELSE [r EXCEPT !.k = @ + 1]]
                /\ obs' = Overlap(p, r.url, [obs[p] EXCEPT !.writes = @ + 1,
                                                           !.tagIds = @ \cup {tagSeq}])
        /\ UNCHANGED <<analyzedUrls, urlSeq, req, hnd, resp, started, traffic, env, doc>>

\* lines 202-226: the catch block, which writes the failure and rethrows
CommitFailure(p) ==
    LET r == run[p]
        w == [obs[p] EXCEPT !.writes = @ + 1]
    IN  /\ r.pc = "catch"
        /\ IF r.urlRecord.id # 0
           THEN /\ analyzedUrls' = UpdateById(r.urlRecord.id,
                        [status |-> "failed", errorMessage |-> r.error,
                         updatedAt |-> Now])
                /\ urlSeq' = urlSeq
                /\ run' = [run EXCEPT ![p] = Raise(r, r.error)]
                /\ obs' = Overlap(p, r.url, w)
           ELSE IF UniqueViolation(r.url)
           THEN /\ UNCHANGED <<analyzedUrls, urlSeq>>
                /\ run' = [run EXCEPT ![p] = Raise(r, UniqueMsg)]
                /\ obs' = [obs EXCEPT ![p] = w]
           ELSE /\ analyzedUrls' = analyzedUrls
                        \cup {NewUrlRow(urlSeq, r.url, "failed", r.error)}
                /\ urlSeq' = urlSeq + 1
                /\ run' = [run EXCEPT ![p] = Raise(r, r.error)]
                /\ obs' = Overlap(p, r.url, w)
        /\ UNCHANGED <<contentTags, tagSeq, req, hnd, resp, started, traffic, env, doc>>

(***************************************************************************)
(* The route and tool handlers.  Hono runs the first handler registered    *)
(* for a method and path, and that handler answers without calling next:   *)
(* POST /webhook/analyze is served by lines 554-612 and                    *)
(* POST /webhook/batch-analyze by lines 615-662.                           *)
(***************************************************************************)
MaxBatch == 10

\* a handler that takes the record a call had written before it raised for
\* the result of the call
RecordOfFailedCall(r) ==
    IF r.pc = "raised"
    THEN IF r.urlRecord.id # 0 THEN [ok |-> TRUE, result |-> r.urlRecord]
         ELSE [ok |-> FALSE, error |-> r.error]
    ELSE IF r.result = NoRow THEN [ok |-> FALSE, error |-> UndefinedMsg]
    ELSE [ok |-> TRUE, result |-> r.result]

\* what a handler makes of a settled analyzeUrl call when it reads result.id
\* (or result.title): the value, or the TypeError of reading undefined
Settled(r) ==
    IF r.pc = "raised" THEN [ok |-> FALSE, error |-> r.error]
    ELSE IF r.result = NoRow THEN [ok |-> FALSE, error |-> UndefinedMsg]
    ELSE [ok |-> TRUE, result |-> r.result]

RunSettled(p) == run[p].pc \in {"returned", "raised"}

\* the state of process p when it takes request q
Take(p, q, h, r, a) ==
    /\ req' = [req EXCEPT ![p] = q]
    /\ hnd' = [hnd EXCEPT ![p] = h]
    /\ run' = [run EXCEPT ![p] = r]
    /\ resp' = [resp EXCEPT ![p] = a]
    /\ started' = started + 1

\* POST /webhook/analyze, lines 554-600: the body, the 400, and either the
\* callback branch (insert, detached call, acknowledgement) or the call
ReceiveAnalyze(p) ==
    /\ CanReceive(p)
    /\ \E b \in AnalyzeBodies(traffic) :
        LET url == b.url
            options == b.options
            cb == b.callback_url
            q == [NoReq EXCEPT !.kind = "analyze", !.url = url,
                               !.options = options, !.callback_url = cb,
                               !.email = b.email,
                               !.generate_tags = b.generate_tags,
                               !.summary_length = b.summary_length]
        IN  IF url = Null
            THEN /\ Take(p, q, [IdleHnd EXCEPT !.phase = "done"], IdleRun,
                         [status |-> 400, body |-> [error |-> "URL is required"]])
                 /\ obs' = [obs EXCEPT ![p] = IdleObs]
                 /\ UNCHANGED <<analyzedUrls, urlSeq>>
            ELSE IF cb = Null
            THEN /\ Take(p, q, [IdleHnd EXCEPT !.phase = "await"],
                         StartRun(url, options), NoResp)
                 /\ obs' = [obs EXCEPT ![p] = IdleObs]
                 /\ UNCHANGED <<analyzedUrls, urlSeq>>
            ELSE IF UniqueViolation(url)
            THEN /\ Take(p, q, [IdleHnd EXCEPT !.phase = "done"], IdleRun,
                         [status |-> 500,
                          body |-> [error |-> "Analysis failed", message |-> UniqueMsg]])
                 /\ obs' = [obs EXCEPT ![p] = IdleObs]
                 /\ UNCHANGED <<analyzedUrls, urlSeq>>
            ELSE LET record == NewUrlRow(urlSeq, url, "pending", Null)
                 IN  /\ analyzedUrls' = analyzedUrls \cup {record}
                     /\ urlSeq' = urlSeq + 1
                     /\ Take(p, q, [IdleHnd EXCEPT !.phase = "detached",
                                                   !.record = record],
                             StartRun(url, options),
                             [status |-> 200,
                              body |-> [analysis_id |-> record.id, status |-> "pending",
                                        message |-> "Analysis started, callback will be sent when complete"]])
                     /\ obs' = Overlap(p, url, IdleObs)
    /\ UNCHANGED <<contentTags, tagSeq, traffic, env, doc>>

\* lines 603-611: the answer of the synchronous branch
AnalyzeRespond(p) ==
    /\ req[p].kind = "analyze" /\ hnd[p].phase = "await" /\ RunSettled(p)
    /\ LET s == Settled(run[p])
       IN  resp' = [resp EXCEPT ![p] =
            IF s.ok
            THEN [status |-> 200,
                  body |-> [analysis_id |-> s.result.id, status |-> s.result.status,
                            result |-> s.result]]
            ELSE [status |-> 500,
                  body |-> [error |-> "Analysis failed", message |-> s.error]]]
    /\ hnd' = [hnd EXCEPT ![p].phase = "done"]
    /\ UNCHANGED <<analyzedUrls, contentTags, urlSeq, tagSeq, req, run, obs, started, traffic, env, doc>>

\* a detached call that posts nothing when analyzeUrl raised
DropsFailure(to, payload, delivered) ==
    IF payload.status = "failed" THEN << >>
    ELSE << [to |-> to, payload |-> payload, delivered |-> delivered] >>

\* fetch(callback_url, { method: "POST", body }).catch(console.error)
\* (581-585, 588-592, 646-650): one POST, which reaches the target or does
\* not; nothing waits for it and its failure is only logged
PostCallback(to, payload, delivered) ==
    << [to |-> to, payload |-> payload, delivered |-> delivered] >>

\* lines 578-593: the detached call settles and the callback is posted
CallbackPost(p) ==
    /\ req[p].kind = "analyze" /\ hnd[p].phase = "detached" /\ RunSettled(p)
    /\ LET s == Settled(run[p])
           payload == IF s.ok
                      THEN [analysis_id |-> s.result.id, status |-> "completed",
                            result |-> s.result]
                      ELSE [analysis_id |-> hnd[p].record.id, status |-> "failed",
                            error |-> s.error]
       IN  \E delivered \in BOOLEAN :
            obs' = [obs EXCEPT ![p].posts =
                        @ \o PostCallback(req[p].callback_url, payload, delivered)]
    /\ hnd' = [hnd EXCEPT ![p].phase = "done"]
    /\ UNCHANGED <<analyzedUrls, contentTags, urlSeq, tagSeq, req, run, resp, started, traffic, env, doc>>

\* line 621: !urls || !Array.isArray(urls) || urls.length === 0
NoUrls(urls) == Len(urls) = 0

\* a limit that is one URL too generous
OneMoreUrl(urls) == Len(urls) > MaxBatch + 1

\* line 625
TooManyUrls(urls) == Len(urls) > MaxBatch

\* POST /webhook/batch-analyze, lines 615-633: the body, the two 400s and
\* the call for the first URL
ReceiveBatch(p) ==
    /\ CanReceive(p)
    /\ \E b \in BatchBodies(traffic) :
        LET urls == b.urls
            options == b.options
            q == [NoReq EXCEPT !.kind = "batch", !.urls = urls,
                               !.options = options, !.callback_url = b.callback_url,
                               !.email = b.email]
        IN  IF NoUrls(urls)
            THEN Take(p, q, [IdleHnd EXCEPT !.phase = "done"], IdleRun,
                      [status |-> 400, body |-> [error |-> "URLs array is required"]])
            ELSE IF TooManyUrls(urls)
            THEN Take(p, q, [IdleHnd EXCEPT !.phase = "done"], IdleRun,
                      [status |-> 400, body |-> [error |-> "Maximum 10 URLs per batch"]])
            ELSE Take(p, q, [IdleHnd EXCEPT !.phase = "await", !.i = 1],
                      StartRun(urls[1], options), NoResp)
    /\ obs' = [obs EXCEPT ![p] = IdleObs]
    /\ UNCHANGED <<analyzedUrls, contentTags, urlSeq, tagSeq, traffic, env, doc>>

\* lines 634-640: the entry pushed for one URL
BatchEntry(url, s) ==
    IF s.ok THEN [url |-> url, status |-> "completed", analysis_id |-> s.result.id]
    ELSE [url |-> url, status |-> "failed", error |-> s.error]

\* a loop that gives up at the first URL that fails
StopsAtFailure(urls, i, s) == i < Len(urls) /\ s.ok

\* whether the loop of lines 631-642 goes on after the entry for urls[i]
BatchContinues(urls, i, s) == i < Len(urls)

\* lines 631-655: the entry for the URL just analysed, then the call for the
\* next URL or, after the last, the callback and the answer
BatchCollect(p) ==
    LET h == hnd[p]
        s == Settled(run[p])
        results == Append(h.results, BatchEntry(req[p].urls[h.i], s))
    IN  /\ req[p].kind = "batch" /\ h.phase = "await" /\ RunSettled(p)
        /\ IF BatchContinues(req[p].urls, h.i, s)
           THEN /\ hnd' = [hnd EXCEPT ![p] = [h EXCEPT !.i = @ + 1, !.results = results]]
                /\ run' = [run EXCEPT ![p] = StartRun(req[p].urls[h.i + 1], req[p].options)]
                /\ obs' = [obs EXCEPT ![p] = IdleObs]
                /\ resp' = resp
           ELSE /\ hnd' = [hnd EXCEPT ![p] = [h EXCEPT !.phase = "done", !.results = results]]
                /\ run' = run
                /\ \E delivered \in (IF req[p].callback_url = Null
                                     THEN {FALSE} ELSE BOOLEAN) :
                     obs' = [obs EXCEPT ![p].posts =
                            IF req[p].callback_url = Null THEN @
                            ELSE @ \o PostCallback(req[p].callback_url,
                                        [batch_results |-> results], delivered)]
                /\ resp' = [resp EXCEPT ![p] =
                            [status |-> 200, body |-> [batch_results |-> results]]]
        /\ UNCHANGED <<analyzedUrls, contentTags, urlSeq, tagSeq, req, started, traffic, env, doc>>

\* tool analyze_url, lines 331-336: the call
ReceiveTool(p) ==
    /\ CanReceive(p)
    /\ Plain(traffic)
    /\ \E url \in ToolUrls :
        Take(p, [NoReq EXCEPT !.kind = "analyze_url", !.url = url,
                    !.options = [generate_tags |-> TRUE, summary_length |-> "medium"]],
             [IdleHnd EXCEPT !.phase = "await"],
             StartRun(url, [generate_tags |-> TRUE, summary_length |-> "medium"]),
             NoResp)
    /\ obs' = [obs EXCEPT ![p] = IdleObs]
    /\ UNCHANGED <<analyzedUrls, contentTags, urlSeq, tagSeq, traffic, env, doc>>

\* lines 338-352: the content block of the tool
ToolRespond(p) ==
    /\ req[p].kind = "analyze_url" /\ hnd[p].phase = "await" /\ RunSettled(p)
    /\ LET s == Settled(run[p])
       IN  resp' = [resp EXCEPT ![p] =
            IF s.ok
            THEN [status |-> 200, isError |-> FALSE,
                  body |-> [title |-> s.result.title, summary |-> s.result.summary,
                            wordCount |-> s.result.wordCount, status |-> s.result.status]]
            ELSE [status |-> 200, isError |-> TRUE, body |-> [message |-> s.error]]]
    /\ hnd' = [hnd EXCEPT ![p].phase = "done"]
    /\ UNCHANGED <<analyzedUrls, contentTags, urlSeq, tagSeq, req, run, obs, started, traffic, env, doc>>

\* a check that lets a body without email through
UrlOnlyRequired(url, email) == url = Null

\* line 885: !url || !email
UrlOrEmailMissing(url, email) == url = Null \/ email = Null

\* a check that takes every binding for a key
AnyKey(e) == FALSE

\* lines 498 and 889: !env.RESEND_API_KEY
NoResendKey(e) == e.RESEND_API_KEY = Null

\* POST /webhook/analyze-and-email, lines 879-894: the body, the 400, the
\* 500 of a worker without the key, and the call
ReceiveAnalyzeAndEmail(p) ==
    /\ CanReceive(p)
    /\ traffic = "mail"
    /\ \E b \in AnalyzeAndEmailBodies :
        LET q == [NoReq EXCEPT !.kind = "analyze-and-email", !.url = b.url,
                               !.email = b.email]
        IN  IF UrlOrEmailMissing(b.url, b.email)
            THEN Take(p, q, [IdleHnd EXCEPT !.phase = "done"], IdleRun,
                      [status |-> 400, body |-> [error |-> "URL and email are required"]])
            ELSE IF NoResendKey(env)
            THEN Take(p, q, [IdleHnd EXCEPT !.phase = "done"], IdleRun,
                      [status |-> 500,
                       body |-> [error |-> "Email functionality not configured"]])
            ELSE Take(p, q, [IdleHnd EXCEPT !.phase = "await"],
                      StartRun(b.url, [generate_tags |-> TRUE, summary_length |-> Null]),
                      NoResp)
    /\ obs' = [obs EXCEPT ![p] = IdleObs]
    /\ UNCHANGED <<analyzedUrls, contentTags, urlSeq, tagSeq, traffic, env, doc>>

\* lines 896-935: the subject (which reads result.title), the email, and the
\* answer: 200 when the email was sent, 500 when it was not or when
\* analyzeUrl raised
AnalyzeAndEmailRespond(p) ==
    /\ req[p].kind = "analyze-and-email" /\ hnd[p].phase = "await" /\ RunSettled(p)
    /\ LET s == Settled(run[p])
       IN  IF ~s.ok
           THEN /\ resp' = [resp EXCEPT ![p] =
                        [status |-> 500,
                         body |-> [error |-> "Failed to analyze and email",
                                   message |-> s.error]]]
                /\ hnd' = [hnd EXCEPT ![p].phase = "done"]
           ELSE \E o \in EmailOutcomes :
                LET result == s.result
                    emailResult == sendSummaryEmail(o)
                IN  /\ hnd' = [hnd EXCEPT ![p].phase = "done",
                                ![p].emails = Append(@,
                                    EmailCall(req[p].email, result, o))]
                    /\ resp' = [resp EXCEPT ![p] =
                         IF ~emailResult.success
                         THEN [status |-> 500,
                               body |-> [success |-> FALSE, analysis |-> result,
                                         email |-> [error |-> emailResult.error]]]
                         ELSE [status |-> 200,
                               body |-> [success |-> TRUE,
                                         message |-> "URL analyzed and summary emailed successfully",
                                         analysis |-> [url |-> result.url,
                                                       title |-> result.title,
                                                       summary |-> result.summary,
                                                       wordCount |-> result.wordCount,
                                                       status |-> result.status],
                                         email |-> [sent |-> TRUE,
                                                    emailId |-> emailResult.emailId,
                                                    recipient |-> req[p].email]]]]
    /\ UNCHANGED <<analyzedUrls, contentTags, urlSeq, tagSeq, req, run, obs, started, traffic, env, doc>>

\* tool email_analysis, lines 496-509: the error of a worker without the
\* key, or the call
ReceiveEmailTool(p) ==
    /\ CanReceive(p)
    /\ traffic = "mail"
    /\ \E a \in EmailToolArgs :
        LET q == [NoReq EXCEPT !.kind = "email_analysis", !.url = a.url,
                               !.email = a.email]
        IN  IF NoResendKey(env)
            THEN Take(p, q, [IdleHnd EXCEPT !.phase = "done"], IdleRun,
                      [status |-> 200, isError |-> TRUE,
                       body |-> [message |-> "Email functionality is not configured. Please set RESEND_API_KEY."]])
            ELSE Take(p, q, [IdleHnd EXCEPT !.phase = "await"],
                      StartRun(a.url, [generate_tags |-> TRUE, summary_length |-> Null]),
                      NoResp)
    /\ obs' = [obs EXCEPT ![p] = IdleObs]
    /\ UNCHANGED <<analyzedUrls, contentTags, urlSeq, tagSeq, traffic, env, doc>>

\* lines 511-546: the subject (which reads analysis.title), the email, and
\* the content block of the tool
EmailToolRespond(p) ==
    /\ req[p].kind = "email_analysis" /\ hnd[p].phase = "await" /\ RunSettled(p)
    /\ LET s == Settled(run[p])
       IN  IF ~s.ok
           THEN /\ resp' = [resp EXCEPT ![p] =
                        [status |-> 200, isError |-> TRUE,
                         body |-> [message |-> "Error analyzing and emailing URL: " \o s.error]]]
                /\ hnd' = [hnd EXCEPT ![p].phase = "done"]
           ELSE \E o \in EmailOutcomes :
                LET analysis == s.result
                    emailResult == sendSummaryEmail(o)
                IN  /\ hnd' = [hnd EXCEPT ![p].phase = "done",
                                ![p].emails = Append(@,
                                    EmailCall(req[p].email, analysis, o))]
                    /\ resp' = [resp EXCEPT ![p] =
                         IF ~emailResult.success
                         THEN [status |-> 200, isError |-> TRUE,
                               body |-> [message |-> "Failed to send email: " \o emailResult.error]]
                         ELSE [status |-> 200, isError |-> FALSE,
                               body |-> [url |-> analysis.url, title |-> analysis.title,
                                         summary |-> analysis.summary,
                                         email |-> req[p].email,
                                         emailId |-> emailResult.emailId]]]
    /\ UNCHANGED <<analyzedUrls, contentTags, urlSeq, tagSeq, req, run, obs, started, traffic, env, doc>>

\* GET /api/analysis/:id, lines 755-772: the lookup by id, the 404, or the
\* record with its tags; the id names a row of the table or the next id,
\* which names none
GetAnalysis(p) ==
    /\ CanReceive(p)
    /\ traffic = "mail"
    /\ \E id \in { r.id : r \in analyzedUrls } \cup {urlSeq} :
        Take(p, [NoReq EXCEPT !.kind = "get", !.id = id],
             [IdleHnd EXCEPT !.phase = "done"], IdleRun,
             IF RowsById(id) = {}
             THEN [status |-> 404, body |-> [error |-> "Analysis not found"]]
             ELSE [status |-> 200,
                   body |-> [result |-> CHOOSE r \in RowsById(id) : TRUE,
                             tags |-> { t \in contentTags : t.urlId = id }]])
    /\ obs' = [obs EXCEPT ![p] = IdleObs]
    /\ UNCHANGED <<analyzedUrls, contentTags, urlSeq, tagSeq, traffic, env, doc>>

\* Number.parseFloat(c.req.query("min_confidence") || "0"), in tenths
MinConfidenceOf(q) ==
    CASE q = Null  -> 0
      [] q = "0.9" -> 9
      [] q = "0.5" -> 5

DefaultTagLimit == 50

\* Number.parseInt(c.req.query("limit") || "50")
TagLimitOf(q) ==
    CASE q = Null -> DefaultTagLimit
      [] q = "1"  -> 1
      [] q = "2"  -> 2

\* the rows of a table in the order of their ids, the order in which the
\* scan of a table without an ORDER BY returns them
RECURSIVE InIdOrder(_)
InIdOrder(S) ==
    IF S = {} THEN << >>
    ELSE LET m == CHOOSE x \in S : \A y \in S : x.id <= y.id
         IN  <<m>> \o InIdOrder(S \ {m})

\* lines 808-810: select ... where confidence >= minConfidence limit n
SelectTags(minConfidence, limit) ==
    LET rows == InIdOrder({ t \in contentTags : t.confidence >= minConfidence })
    IN  SubSeq(rows, 1, Min(limit, Len(rows)))

\* lines 813-816: tags.reduce, and Object.entries of what it built: one
\* entry for each tag among the rows, in the order the tags first occur
\* (the tags are not numerals)
RECURSIVE TagCounts(_)
TagCounts(rows) ==
    IF rows = << >> THEN << >>
    ELSE LET acc == TagCounts(SubSeq(rows, 1, Len(rows) - 1))
             t   == rows[Len(rows)].tag
         IN  IF \E k \in 1..Len(acc) : acc[k].tag = t
             THEN [k \in 1..Len(acc) |->
                    IF acc[k].tag = t THEN [acc[k] EXCEPT !.count = @ + 1]
                    ELSE acc[k]]
             ELSE Append(acc, [tag |-> t, count |-> 1])

\* lines 818-820: .sort(([,a], [,b]) => b - a), a stable sort: the larger
\* count first, equal counts in the order they had
RECURSIVE SortByCount(_)
SortByCount(es) ==
    IF es = << >> THEN << >>
    ELSE LET m == CHOOSE k \in 1..Len(es) :
                    /\ \A j \in 1..Len(es) : es[j].count <= es[k].count
                    /\ \A j \in 1..(k - 1) : es[j].count < es[k].count
         IN  <<es[m]>> \o SortByCount(SubSeq(es, 1, m - 1)
                                      \o SubSeq(es, m + 1, Len(es)))

\* GET /api/tags, lines 801-822
GetTags(p) ==
    /\ CanReceive(p)
    /\ traffic = "mail"
    /\ \E q \in TagsQueries :
        LET minConfidence == MinConfidenceOf(q.min_confidence)
            limit == TagLimitOf(q.limit)
            tags == SelectTags(minConfidence, limit)
            sortedTags == SortByCount(TagCounts(tags))
        IN  Take(p, [NoReq EXCEPT !.kind = "tags",
                        !.min_confidence = q.min_confidence, !.limit = q.limit],
                 [IdleHnd EXCEPT !.phase = "done"], IdleRun,
                 [status |-> 200, body |-> [tags |-> sortedTags]])
    /\ obs' = [obs EXCEPT ![p] = IdleObs]
    /\ UNCHANGED <<analyzedUrls, contentTags, urlSeq, tagSeq, traffic, env, doc>>

\* DELETE /api/analysis/:id, lines 782-791; the id names a row of the table
\* or the next id, which names none
DeleteAnalysis(p) ==
    /\ CanReceive(p)
    /\ Plain(traffic)
    /\ \E id \in { r.id : r \in analyzedUrls } \cup {urlSeq} :
        LET gone == RowsById(id)
            own  == [IdleObs EXCEPT !.writes = 1,
                        !.delRows = Cardinality(gone),
                        !.delTags = Cardinality({ t \in contentTags : t.urlId = id })]
        IN  /\ analyzedUrls' = UrlsAfterDelete(id)
            /\ contentTags' = TagsAfterDelete(id)
            /\ Take(p, [NoReq EXCEPT !.kind = "delete", !.id = id],
                    [IdleHnd EXCEPT !.phase = "done"], IdleRun,
                    [status |-> 200, body |-> [message |-> "Analysis deleted successfully"]])
            /\ obs' = [q \in Procs |->
                        IF q = p THEN own
                        ELSE IF run[q].pc # "none"
                                /\ \E g \in gone : g.url = run[q].url
                             THEN [obs[q] EXCEPT !.touched = TRUE]
                             ELSE obs[q]]
    /\ UNCHANGED <<urlSeq, tagSeq, traffic, env, doc>>

Next ==
    \E p \in Procs :
        \/ Select(p)
        \/ MarkPending(p)
        \/ Fetch(p)
        \/ Summarize(p)
        \/ CommitSuccess(p)
        \/ InsertTag(p)
        \/ CommitFailure(p)
        \/ ReceiveAnalyze(p)
        \/ AnalyzeRespond(p)
        \/ CallbackPost(p)
        \/ ReceiveBatch(p)
        \/ BatchCollect(p)
        \/ ReceiveTool(p)
        \/ ToolRespond(p)
        \/ ReceiveAnalyzeAndEmail(p)
        \/ AnalyzeAndEmailRespond(p)
        \/ ReceiveEmailTool(p)
        \/ EmailToolRespond(p)
        \/ GetAnalysis(p)
        \/ GetTags(p)
        \/ DeleteAnalysis(p)

Spec == Init /\ [][Next]_vars

\* extractContent on its own: a document, and the call
InitExtract ==
    /\ analyzedUrls = {}
    /\ contentTags = {}
    /\ urlSeq = 1
    /\ tagSeq = 1
    /\ req = [p \in Procs |-> NoReq]
    /\ hnd = [p \in Procs |-> IdleHnd]
    /\ run = [p \in Procs |-> IdleRun]
    /\ resp = [p \in Procs |-> NoResp]
    /\ obs = [p \in Procs |-> IdleObs]
    /\ started = 0
    /\ traffic = "mixed"
    /\ env = [RESEND_API_KEY |-> "re_key"]
    /\ doc \in Docs

Extract ==
    /\ doc.out = NoExtract
    /\ doc' = [doc EXCEPT !.out = extractContent(doc.html)]
    /\ UNCHANGED <<analyzedUrls, contentTags, urlSeq, tagSeq, req, hnd, run,
                   resp, obs, started, traffic, env>>

SpecExtract == InitExtract /\ [][Extract]_vars

\* the awaited operations of one analyzeUrl call
PipelineStep(p) ==
    \/ Select(p)
    \/ MarkPending(p)
    \/ Fetch(p)
    \/ Summarize(p)
    \/ CommitSuccess(p)
    \/ InsertTag(p)
    \/ CommitFailure(p)

\* the worker when no DELETE /api/analysis/:id arrives
NextWithoutDelete ==
    \E p \in Procs :
        \/ PipelineStep(p)
        \/ ReceiveAnalyze(p)
        \/ AnalyzeRespond(p)
        \/ CallbackPost(p)
        \/ ReceiveBatch(p)
        \/ BatchCollect(p)
        \/ ReceiveTool(p)
        \/ ToolRespond(p)
        \/ ReceiveAnalyzeAndEmail(p)
        \/ AnalyzeAndEmailRespond(p)
        \/ ReceiveEmailTool(p)
        \/ EmailToolRespond(p)
        \/ GetAnalysis(p)
        \/ GetTags(p)

\* the worker without deletes, where every fetch, model call and store
\* operation a call awaits comes back, with a value or with an error
SpecReturning ==
    /\ Init
    /\ [][NextWithoutDelete]_vars
    /\ \A p \in Procs : WF_vars(PipelineStep(p))

(***************************************************************************)
(* Properties of analyzeUrl.  A call is "undisturbed" when no other        *)
(* request has written to the rows of its URL since the call began         *)
(* (obs.touched is FALSE).                                                 *)
(***************************************************************************)
\* the rows of the URL of the call of process p
OwnRows(p) == { x \in analyzedUrls : x.url = run[p].url }

\* C1: a call of analyzeUrl that finds the record of its URL completed
\* returns that record as it is, without a fetch, without a call of the text
\* model and without a write to a record or a tag; undisturbed, the record
\* it returns is still the stored one
C1_CompletedIsReturnedAsIs ==
    \A p \in Procs :
        (/\ run[p].pc = "returned"
         /\ run[p].existing.id # 0
         /\ run[p].existing.status = "completed")
        => /\ run[p].result = run[p].existing
           /\ run[p].result.url = run[p].url
           /\ obs[p].fetches = 0
           /\ obs[p].extracts = 0
           /\ obs[p].aiCalls = 0
           /\ obs[p].writes = 0
           /\ obs[p].tagIds = {}
           /\ (~obs[p].touched => run[p].result \in analyzedUrls)

\* a second request found the record the first one completed, with its tags
C1_Witness ==
    \E p \in Procs :
        /\ run[p].pc = "returned"
        /\ run[p].existing.id # 0
        /\ run[p].existing.status = "completed"
        /\ started = 2
        /\ ~obs[p].touched
        /\ \E t \in contentTags : t.urlId = run[p].result.id

\* C2: analyzed_urls never holds two records with the same url, and never
\* two records with the same id
C2_OneRecordPerUrl ==
    \A x, y \in analyzedUrls : (x.url = y.url \/ x.id = y.id) => x = y

\* two requests raced on a new URL: the insert of the later one was refused
\* and the record of the URL was written by a call that had found one
C2_Witness ==
    /\ \E p \in Procs :
        /\ run[p].pc = "raised"
        /\ run[p].urlRecord.id = 0
        /\ run[p].error = UniqueMsg
    /\ \E p \in Procs :
        /\ run[p].pc \in {"fetch", "summarize", "commit", "tags", "returned", "raised"}
        /\ run[p].urlRecord.id # 0 \/ run[p].result.id # 0
        /\ obs[p].writes > 0
    /\ Cardinality(analyzedUrls) = 1

\* C3: a call fails with the insufficient-content error exactly when its
\* fetch was answered with a 2xx status and the text extracted is empty or
\* shorter than 50 characters (50 characters pass); the text model is then
\* not called and, undisturbed, the record of the URL is failed with that
\* error as its message
C3_InsufficientContent ==
    \A p \in Procs :
        /\ run[p].pc \in {"catch", "raised"}
           => (run[p].error = InsufficientMsg
                 <=> (run[p].fetched = "ok" /\ obs[p].contentLen < 50))
        /\ (run[p].fetched = "ok" /\ obs[p].contentLen < 50)
           => /\ run[p].pc \in {"catch", "raised"}
              /\ obs[p].aiCalls = 0
              /\ obs[p].tagIds = {}
        /\ (run[p].pc = "raised" /\ run[p].error = InsufficientMsg /\ ~obs[p].touched)
           => /\ OwnRows(p) # {}
              /\ \A x \in OwnRows(p) :
                    /\ x.status = "failed"
                    /\ x.errorMessage # Null
                    /\ x.errorMessage = InsufficientMsg

\* a page with 49 characters of text was refused and recorded as failed
C3_Witness ==
    \E p \in Procs :
        /\ run[p].pc = "raised"
        /\ run[p].error = InsufficientMsg
        /\ obs[p].contentLen = 49
        /\ ~obs[p].touched
        /\ \E x \in OwnRows(p) : x.status = "failed"

\* C4: when the fetch is answered with a non-2xx status the call extracts
\* nothing, calls no text model, stores no tag and fails with
\* "HTTP <status>: <status text>"; when it has raised that error,
\* undisturbed, the record of the URL is failed with it as its message
C4_HttpStatusFailure ==
    \A p \in Procs :
        run[p].fetched = "status"
        => /\ run[p].pc \in {"catch", "raised"}
           /\ run[p].error = "HTTP 404: Not Found"
           /\ obs[p].fetches = 1
           /\ obs[p].extracts = 0
           /\ obs[p].aiCalls = 0
           /\ obs[p].tagIds = {}
           /\ (run[p].pc = "raised" /\ ~obs[p].touched)
              => /\ OwnRows(p) # {}
                 /\ \A x \in OwnRows(p) :
                        x.status = "failed" /\ x.errorMessage = "HTTP 404: Not Found"

\* a 404 was raised and recorded
C4_Witness ==
    \E p \in Procs :
        /\ run[p].pc = "raised"
        /\ run[p].fetched = "status"
        /\ ~obs[p].touched
        /\ \E x \in OwnRows(p) : x.errorMessage = "HTTP 404: Not Found"

\* C5: when the call of the text model fails, analyzeUrl does not fail: it
\* stores no tag and returns the record it committed, which is completed
\* and whose summary is the content when that has at most 300 characters
\* and else its first 300 characters followed by "..."; undisturbed, that
\* record is the stored one
C5_ModelFailureFallsBack ==
    \A p \in Procs :
        run[p].ai = "failed"
        => /\ run[p].pc \in {"commit", "returned"}
           /\ obs[p].tagIds = {}
           /\ run[p].tags = << >>
           /\ (run[p].pc = "returned" /\ run[p].result.id # 0)
              => LET x == run[p].result
                 IN  /\ x.status = "completed"
                     /\ x.url = run[p].url
                     /\ x.summary = IF Len(x.content) <= 300 THEN x.content
                                    ELSE SubSeq(x.content, 1, 300) \o "..."
           /\ (run[p].pc = "returned" /\ ~obs[p].touched)
              => /\ run[p].result.id # 0
                 /\ OwnRows(p) = {run[p].result}

\* the model failed on a page of more than 300 characters
C5_Witness ==
    \E p \in Procs :
        /\ run[p].pc = "returned"
        /\ run[p].ai = "failed"
        /\ ~obs[p].touched
        /\ run[p].result \in analyzedUrls
        /\ Len(run[p].result.content) > 300
        /\ Len(run[p].result.summary) = 303

\* for each reply of the text model, the number of non-empty tags,
\* separated by commas, that it names after "TAGS:"
NamedTagCount ==
    [reply \in Replies |->
        LET at     == IndexFrom(reply, "TAGS:", 1)
            pieces == SplitCommas(SubSeq(reply, at + 5, Len(reply)))
        IN  IF at = 0 THEN 0
            ELSE Cardinality({ k \in DOMAIN pieces : Trim(pieces[k]) # "" })]

\* C6: a call that returns has stored min(n, 5) tags when generate_tags is
\* set and the text model replied naming n non-empty tags, and no tag
\* otherwise (generate_tags unset, a completed record returned as it is, the
\* model failed); a call that fails before its commit has stored none;
\* every tag has confidence 0.8; the tags a call stored carry the id of its
\* record and the names in the order of the reply
C6_TagCap ==
    /\ \A t \in contentTags : t.confidence = 8
    /\ \A p \in Procs :
        LET r == run[p]
            rank(id) == Cardinality({ i \in obs[p].tagIds : i <= id })
        IN  /\ r.pc = "returned"
               => /\ Cardinality(obs[p].tagIds) =
                        IF r.options.generate_tags /\ r.ai = "ok"
                        THEN Min(NamedTagCount[r.reply], 5)
                        ELSE 0
                  /\ \A t \in contentTags :
                        t.id \in obs[p].tagIds
                        => t.urlId = r.result.id /\ t.tag = r.tags[rank(t.id)]
                  /\ ~obs[p].touched
                     => obs[p].tagIds \subseteq { t.id : t \in contentTags }
            /\ (r.pc \in {"catch", "raised"} /\ r.ai = "none")
               => obs[p].tagIds = {}

\* a reply naming eight tags left five rows
C6_Witness ==
    \E p \in Procs :
        /\ run[p].pc = "returned"
        /\ run[p].options.generate_tags
        /\ run[p].reply = Reply8
        /\ ~obs[p].touched
        /\ Cardinality({ t \in contentTags : t.urlId = run[p].result.id }) = 5

\* for each URL analysed, the content type its text calls for
ExpectedContentType ==
    [url \in {UrlBoth, UrlNews, UrlPlain, UrlDown} |->
        IF Occurrences(url, "blog") # {} THEN "blog"
        ELSE IF Occurrences(url, "news") # {} THEN "news"
        ELSE "article"]

\* C7: the content type of a completed record, and of the record a call
\* commits, is "blog" when the url contains "blog" (even beside "news"),
\* else "news" when it contains "news", else "article"
C7_ContentTypePrecedence ==
    /\ \A x \in analyzedUrls :
        (x.status = "completed" \/ x.contentType # Null)
        => x.contentType = ExpectedContentType[x.url]
    /\ \A p \in Procs :
        (run[p].pc = "returned" /\ run[p].result.id # 0)
        => run[p].result.contentType = ExpectedContentType[run[p].url]

\* a url with "blog" and "news" in it was committed as a blog
C7_Witness ==
    \E p \in Procs :
        /\ run[p].pc = "returned"
        /\ run[p].fetched = "ok"
        /\ run[p].url = UrlBoth
        /\ run[p].result \in analyzedUrls
        /\ run[p].result.contentType = "blog"

\* C8: a batch request with more than 10 URLs has its answer, 400, at once:
\* no call of analyzeUrl is made for it, hence no fetch, no call of the text
\* model and no write, and as the first request it leaves the store empty
C8_BatchAboveLimit ==
    \A p \in Procs :
        (req[p].kind = "batch" /\ Len(req[p].urls) > 10)
        => /\ resp[p].status = 400
           /\ resp[p].body = [error |-> "Maximum 10 URLs per batch"]
           /\ hnd[p].phase = "done"
           /\ run[p] = IdleRun
           /\ obs[p] = IdleObs
           /\ started = 1
              => analyzedUrls = {} /\ contentTags = {} /\ urlSeq = 1 /\ tagSeq = 1

\* eleven URLs were refused
C8_Witness ==
    \E p \in Procs :
        /\ req[p].kind = "batch"
        /\ Len(req[p].urls) = 11
        /\ resp[p].status = 400

\* C9: a batch of 1 to 10 URLs runs one call of analyzeUrl at a time, the
\* call for the i-th URL after the outcomes of the i-1 before it were
\* collected; it is answered only when there is one outcome per URL, in the
\* order of the list, each a completed entry with the id of the record or a
\* failed entry with the error of that URL's call
C9_BatchSequential ==
    \A p \in Procs :
        (req[p].kind = "batch" /\ Len(req[p].urls) \in 1..10)
        => LET u == req[p].urls
               h == hnd[p]
           IN  /\ h.phase \in {"await", "done"}
               /\ h.phase = "await"
                  => /\ h.i \in 1..Len(u)
                     /\ Len(h.results) = h.i - 1
                     /\ run[p].pc # "none"
                     /\ run[p].url = u[h.i]
                     /\ resp[p] = NoResp
               /\ h.phase = "done"
                  => /\ Len(h.results) = Len(u)
                     /\ resp[p] = [status |-> 200, body |-> [batch_results |-> h.results]]
               /\ \A k \in 1..Len(h.results) :
                    LET e == h.results[k]
                    IN  /\ e.url = u[k]
                        /\ IF e.status = "completed" THEN e.analysis_id > 0
                           ELSE e.status = "failed" /\ e.error # Null
                        /\ e.url = UrlDown => e.status = "failed" /\ e.error = RejectMsg

\* the first URL of a batch failed and the second was analysed all the same
C9_Witness ==
    \E p \in Procs :
        /\ req[p].kind = "batch"
        /\ Len(req[p].urls) = 2
        /\ hnd[p].phase = "done"
        /\ resp[p].status = 200
        /\ Len(resp[p].body.batch_results) = 2
        /\ resp[p].body.batch_results[1].status = "failed"
        /\ resp[p].body.batch_results[2].status = "completed"

\* C10: the step that serves DELETE /api/analysis/:id for the id of a record
\* leaves the store without that record and without the tags whose urlId is
\* that id, and with every other record and tag as it was
C10_DeleteCascades ==
    [][\A p \in Procs :
        (/\ CanReceive(p)
         /\ started' = started + 1
         /\ req'[p].kind = "delete"
         /\ \E x \in analyzedUrls : x.id = req'[p].id)
        => /\ analyzedUrls' = { x \in analyzedUrls : x.id # req'[p].id }
           /\ contentTags' = { t \in contentTags : t.urlId # req'[p].id }
           /\ resp'[p].status = 200]_vars

\* a record with tags was deleted and another record is still there
C10_Witness ==
    \E p \in Procs :
        /\ req[p].kind = "delete"
        /\ obs[p].delRows = 1
        /\ obs[p].delTags > 0
        /\ analyzedUrls # {}
        /\ \A x \in analyzedUrls : x.id # req[p].id
        /\ \A t \in contentTags : t.urlId # req[p].id

(***************************************************************************)
(* Properties of the email routes and of the routes by id.                 *)
(***************************************************************************)
\* the store is left as it is by the step
StoreUnchanged == UNCHANGED <<analyzedUrls, contentTags, urlSeq, tagSeq>>

\* C11: the step that serves POST /webhook/analyze-and-email for a body
\* without url or without email answers 400 with the error "URL and email
\* are required" and ends the request there: no call of analyzeUrl is
\* started (hence no fetch and no call of the text model), no record or tag
\* is written and no email is sent
C11_UrlAndEmailRequired ==
    [][\A p \in Procs :
        (/\ CanReceive(p)
         /\ started' = started + 1
         /\ req'[p].kind = "analyze-and-email"
         /\ req'[p].url = Null \/ req'[p].email = Null)
        => /\ resp'[p] = [status |-> 400,
                          body |-> [error |-> "URL and email are required"]]
           /\ hnd'[p].phase = "done"
           /\ hnd'[p].emails = << >>
           /\ run'[p] = IdleRun
           /\ obs'[p] = IdleObs
           /\ StoreUnchanged]_vars

\* a body with a url and no email was refused, with the key configured
C11_Witness ==
    \E p \in Procs :
        /\ req[p].kind = "analyze-and-email"
        /\ req[p].url # Null
        /\ req[p].email = Null
        /\ env.RESEND_API_KEY # Null
        /\ resp[p].status = 400
        /\ hnd[p].phase = "done"

\* C12: a request to POST /webhook/analyze-and-email with url and email,
\* served with the key configured, whose call of analyzeUrl returned a
\* record, has sent no email while the call was running and exactly one,
\* to the address of the body and about that record, when it is answered;
\* when the provider accepted that email the answer is 200 with success
\* true, email.sent true, the delivery id of the provider as email.emailId
\* and the fields of the record as analysis
C12_AnalyzedAndEmailed ==
    \A p \in Procs :
        (/\ req[p].kind = "analyze-and-email"
         /\ req[p].url # Null /\ req[p].email # Null
         /\ env.RESEND_API_KEY # Null)
        => /\ hnd[p].phase \in {"await", "done"}
           /\ hnd[p].phase = "await" => hnd[p].emails = << >> /\ resp[p] = NoResp
           /\ (hnd[p].phase = "done" /\ run[p].pc = "returned" /\ run[p].result.id # 0)
              => /\ Len(hnd[p].emails) = 1
                 /\ hnd[p].emails[1].to = req[p].email
                 /\ hnd[p].emails[1].summary = run[p].result
                 /\ hnd[p].emails[1].provider = Accepted
                    => /\ resp[p].status = 200
                       /\ resp[p].body.success
                       /\ resp[p].body.email =
                            [sent |-> TRUE, emailId |-> Accepted.id,
                             recipient |-> req[p].email]
                       /\ resp[p].body.analysis.url = req[p].url
                       /\ resp[p].body.analysis.status = "completed"
                       /\ resp[p].body.analysis.summary = run[p].result.summary

\* a page was analysed, its tags were stored and the summary was accepted
\* by the provider
C12_Witness ==
    \E p \in Procs :
        /\ req[p].kind = "analyze-and-email"
        /\ hnd[p].phase = "done"
        /\ run[p].pc = "returned"
        /\ run[p].fetched = "ok"
        /\ Len(hnd[p].emails) = 1
        /\ hnd[p].emails[1].provider = Accepted
        /\ resp[p].status = 200
        /\ resp[p].body.email.emailId = "delivery-1"
        /\ \E t \in contentTags : t.urlId = run[p].result.id

\* the requests that ask for their summary by email
AsksForEmail(q) ==
    /\ q.kind \in {"analyze-and-email", "email_analysis", "analyze", "batch"}
    /\ q.email # Null

\* C13: a request that asks for an email, whose call of analyzeUrl returned
\* a record and whose email the provider did not accept (it refused it or
\* could not be reached), is not answered with status 500
C13_EmailFailureIsNot500 ==
    \A p \in Procs :
        (/\ AsksForEmail(req[p])
         /\ hnd[p].phase = "done"
         /\ run[p].pc = "returned" /\ run[p].result.id # 0
         /\ \E k \in DOMAIN hnd[p].emails : hnd[p].emails[k].provider # Accepted)
        => resp[p].status # 500

\* C14: a request to POST /webhook/analyze with url and email and without
\* callback_url, served with the key configured, has sent no email while
\* its call of analyzeUrl is running; when it is answered after the call
\* returned a record, exactly one email has been sent, to the address of
\* the body, and the answer has an email field
C14_AnalyzeSendsEmail ==
    \A p \in Procs :
        (/\ req[p].kind = "analyze"
         /\ req[p].url # Null /\ req[p].email # Null /\ req[p].callback_url = Null
         /\ env.RESEND_API_KEY # Null)
        => /\ hnd[p].phase = "await" => hnd[p].emails = << >>
           /\ (hnd[p].phase = "done" /\ run[p].pc = "returned" /\ run[p].result.id # 0)
              => /\ Len(hnd[p].emails) = 1
                 /\ hnd[p].emails[1].to = req[p].email
                 /\ "email" \in DOMAIN resp[p].body

\* C15: a request to POST /webhook/analyze whose body has generate_tags:
\* true and a summary_length at top level runs analyzeUrl with these as its
\* options; when the call, for a URL that had no record, returns after a
\* reply of the text model that names tags, tags are stored for its record
C15_TopLevelOptions ==
    \A p \in Procs :
        (/\ req[p].kind = "analyze"
         /\ req[p].generate_tags /\ req[p].summary_length # Null
         /\ run[p].pc # "none")
        => /\ run[p].options.generate_tags
           /\ run[p].options.summary_length = req[p].summary_length
           /\ (/\ run[p].pc = "returned" /\ run[p].existing.id = 0
               /\ run[p].result.id # 0
               /\ run[p].ai = "ok" /\ NamedTagCount[run[p].reply] > 0)
              => \E t \in contentTags : t.urlId = run[p].result.id

\* C16: a request to POST /webhook/batch-analyze with 1 to 10 urls and an
\* email, served with the key configured, has sent no email while its URLs
\* are being analysed; when it is answered exactly one email has been sent,
\* to the address of the body, and the answer has an email field
C16_BatchSendsEmail ==
    \A p \in Procs :
        (/\ req[p].kind = "batch"
         /\ Len(req[p].urls) \in 1..10 /\ req[p].email # Null
         /\ env.RESEND_API_KEY # Null)
        => /\ hnd[p].phase = "await" => hnd[p].emails = << >>
           /\ hnd[p].phase = "done"
              => /\ Len(hnd[p].emails) = 1
                 /\ hnd[p].emails[1].to = req[p].email
                 /\ "email" \in DOMAIN resp[p].body

C18_CallbackAlwaysAcknowledged ==
    \A p \in Procs :
        (/\ req[p].kind = "analyze"
         /\ req[p].url # Null
         /\ req[p].callback_url # Null)
        => /\ resp[p].status = 200
           /\ resp[p].body.status = "pending"
           /\ hnd[p].phase \in {"detached", "done"}
           /\ run[p].pc # "none"
           /\ run[p].url = req[p].url
           /\ run[p].urlRecord.id # 0 => run[p].urlRecord.id = resp[p].body.analysis_id

\* C19: in a worker without RESEND_API_KEY, the step that serves POST
\* /webhook/analyze-and-email for a body with url and email answers 500
\* with the error "Email functionality not configured", the step that
\* serves the tool email_analysis answers with the error "Email
\* functionality is not configured. Please set RESEND_API_KEY.", and either
\* ends the request there: no call of analyzeUrl is started (hence no fetch
\* and no call of the text model), no record or tag is written and no
\* email is sent
C19_NoKeyNoPipeline ==
    [][\A p \in Procs :
        (/\ CanReceive(p)
         /\ started' = started + 1
         /\ env.RESEND_API_KEY = Null
         /\ \/ req'[p].kind = "email_analysis"
            \/ /\ req'[p].kind = "analyze-and-email"
               /\ req'[p].url # Null /\ req'[p].email # Null)
        => /\ IF req'[p].kind = "email_analysis"
              THEN resp'[p] =
                    [status |-> 200, isError |-> TRUE,
                     body |-> [message |-> "Email functionality is not configured. Please set RESEND_API_KEY."]]
              ELSE resp'[p] =
                    [status |-> 500,
                     body |-> [error |-> "Email functionality not configured"]]
           /\ hnd'[p].phase = "done"
           /\ hnd'[p].emails = << >>
           /\ run'[p] = IdleRun
           /\ obs'[p] = IdleObs
           /\ StoreUnchanged]_vars

\* the tool was refused in a worker without the key, as the second request
\* of a store that is still empty
C19_Witness ==
    \E p \in Procs :
        /\ req[p].kind = "email_analysis"
        /\ env.RESEND_API_KEY = Null
        /\ resp[p].status = 200
        /\ resp[p].isError
        /\ hnd[p].phase = "done"
        /\ started = 2
        /\ analyzedUrls = {}

\* C20: the step that serves GET /api/analysis/:id or DELETE
\* /api/analysis/:id for an id that no record has answers 404 and leaves
\* every table as it was
C20_MissingIdIs404 ==
    [][\A p \in Procs :
        (/\ CanReceive(p)
         /\ started' = started + 1
         /\ req'[p].kind \in {"get", "delete"}
         /\ \A x \in analyzedUrls : x.id # req'[p].id)
        => /\ resp'[p].status = 404
           /\ StoreUnchanged]_vars

(***************************************************************************)
(* Properties of analyzeUrl under concurrent requests.                     *)
(***************************************************************************)
\* process p takes a step of its call of analyzeUrl
Steps(p) == run[p].pc # "none" /\ run'[p] # run[p]

\* the call of p found no record of its URL and has not inserted one
Unrecorded(p) == run[p].existing.id = 0 /\ run[p].urlRecord.id = 0

\* C21: of the calls that found no record of a URL and attempt the insert,
\* the one that finds the table without a record of the URL adds exactly
\* one pending record; one that finds a record there is refused: its
\* insert and the insert of its catch block leave every record as it was,
\* it raises the error of the unique index to its caller, and it has made
\* no fetch and no call of the text model
C21_OneInsertWins ==
    [][\A p \in Procs :
        /\ (Steps(p) /\ run[p].pc = "upsert" /\ Unrecorded(p))
           => IF \E x \in analyzedUrls : x.url = run[p].url
              THEN /\ analyzedUrls' = analyzedUrls
                   /\ run'[p].pc = "catch"
                   /\ run'[p].error = UniqueMsg
                   /\ run'[p].urlRecord.id = 0
              ELSE /\ Cardinality(analyzedUrls') = Cardinality(analyzedUrls) + 1
                   /\ analyzedUrls \subseteq analyzedUrls'
                   /\ \A x \in analyzedUrls' \ analyzedUrls :
                        /\ x.url = run[p].url
                        /\ x.status = "pending"
                        /\ x = run'[p].urlRecord
        /\ (/\ Steps(p) /\ run[p].pc = "catch" /\ Unrecorded(p)
            /\ \E x \in analyzedUrls : x.url = run[p].url)
           => /\ analyzedUrls' = analyzedUrls
              /\ run'[p].pc = "raised"
              /\ run'[p].error = UniqueMsg
        /\ (run'[p].pc \in {"catch", "raised"} /\ run'[p].urlRecord.id = 0)
           => /\ run'[p].error = UniqueMsg
              /\ run'[p].fetched = "none"
              /\ run'[p].ai = "none"
              /\ obs'[p].fetches = 0
              /\ obs'[p].aiCalls = 0]_vars

\* two calls found no record of the URL; the insert of one was refused and
\* it has raised; the other has completed the record, which holds what
\* that call returned
C21_Witness ==
    \E p, q \in Procs :
        /\ p # q
        /\ run[p].url = run[q].url
        /\ run[p].pc = "raised"
        /\ run[p].urlRecord.id = 0
        /\ run[p].error = UniqueMsg
        /\ obs[p].fetches = 0
        /\ run[q].pc = "returned"
        /\ run[q].existing.id = 0
        /\ run[q].result.status = "completed"
        /\ analyzedUrls = {run[q].result}

\* C22: in the state in which a call of analyzeUrl has raised its error to
\* the caller, the record of its URL is failed and has the message of that
\* error as its errorMessage
C22_FailurePersistedFirst ==
    [][\A p \in Procs :
        (run[p].pc # "raised" /\ run'[p].pc = "raised")
        => \E x \in analyzedUrls' :
            /\ x.url = run'[p].url
            /\ x.status = "failed"
            /\ x.errorMessage = run'[p].error]_vars

\* C23: no step moves a completed record to pending or to failed: a record
\* that is completed is, after every step, completed or deleted
C23_CompletedStaysCompleted ==
    [][\A x \in analyzedUrls : \A y \in analyzedUrls' :
        (x.status = "completed" /\ y.id = x.id) => y.status = "completed"]_vars

\* C24: in every reachable state a record with an errorMessage is failed:
\* no pending and no completed record has one
C24_ErrorMessageOnlyIfFailed ==
    \A x \in analyzedUrls : x.errorMessage # Null => x.status = "failed"

\* the columns the failure commit has to leave alone
KeptByFailure ==
    {"id", "url", "title", "content", "summary", "wordCount", "analysisDate",
     "contentType", "language", "createdAt"}

\* C25: the step in which the catch block of analyzeUrl writes the failure
\* to the record of its call changes, of that record, only status (to
\* failed), errorMessage (to the message of the error) and updatedAt: id,
\* url, title, content, summary, wordCount, contentType and createdAt (and
\* analysisDate and language) are as before; it adds and removes no record
\* and changes no other record and no tag
C25_FailureCommitFrame ==
    [][\A p \in Procs :
        (Steps(p) /\ run[p].pc = "catch" /\ run[p].urlRecord.id # 0)
        => /\ contentTags' = contentTags
           /\ Cardinality(analyzedUrls') = Cardinality(analyzedUrls)
           /\ \A x \in analyzedUrls :
                IF x.id = run[p].urlRecord.id
                THEN \E y \in analyzedUrls' :
                        /\ \A f \in KeptByFailure : y[f] = x[f]
                        /\ y.status = "failed"
                        /\ y.errorMessage = run[p].error
                        /\ y.updatedAt >= x.updatedAt
                ELSE x \in analyzedUrls']_vars

\* a call failed on a record that another call had completed meanwhile:
\* the record is failed and still holds the content and the summary
C25_Witness ==
    \E p \in Procs :
        /\ run[p].pc = "raised"
        /\ run[p].urlRecord.id # 0
        /\ \E x \in analyzedUrls :
            /\ x.id = run[p].urlRecord.id
            /\ x.status = "failed"
            /\ x.errorMessage = run[p].error
            /\ x.content # Null
            /\ x.summary # Null

\* C26: a call of analyzeUrl issues its GET only after its pending write:
\* the step of the pending write either leaves a pending record of the URL
\* in the store, which is the record the call goes on with, and only then
\* is the GET issued, or it fails, and then the call issues no GET and no
\* call of the text model
C26_PendingBeforeGet ==
    [][\A p \in Procs :
        /\ (Steps(p) /\ run[p].pc = "upsert")
           => IF run'[p].pc = "fetch"
              THEN \E x \in analyzedUrls' :
                    /\ x.url = run[p].url
                    /\ x.status = "pending"
                    /\ x.id = run'[p].urlRecord.id
              ELSE /\ run'[p].pc = "catch"
                   /\ run'[p].urlRecord.id = 0
        /\ run'[p].pc \in {"select", "upsert"}
           => obs'[p].fetches = 0 /\ obs'[p].aiCalls = 0
        /\ (run'[p].pc \in {"catch", "raised"} /\ run'[p].urlRecord.id = 0)
           => obs'[p].fetches = 0 /\ obs'[p].aiCalls = 0]_vars

\* C27: a call of analyzeUrl that found the record of its URL pending or
\* failed goes on with that record: after its pending write the record has
\* the id, the url and the createdAt it had, status pending and no
\* errorMessage; and when the call has committed its success the record is
\* completed and has no errorMessage
C27_ReusesRecord ==
    [][\A p \in Procs :
        (Steps(p) /\ run[p].existing.id # 0)
        => /\ run[p].pc = "upsert"
              => /\ run'[p].pc = "fetch"
                 /\ run'[p].urlRecord.id = run[p].existing.id
                 /\ \E y \in analyzedUrls' :
                        /\ y.id = run[p].existing.id
                        /\ y.url = run[p].existing.url
                        /\ y.createdAt = run[p].existing.createdAt
                        /\ y.status = "pending"
                        /\ y.errorMessage = Null
           /\ run[p].pc = "commit"
              => \E y \in analyzedUrls' :
                    /\ y.id = run[p].existing.id
                    /\ y.url = run[p].existing.url
                    /\ y.createdAt = run[p].existing.createdAt
                    /\ y.status = "completed"
                    /\ y.errorMessage = Null]_vars

\* C28: no step changes the id, the url or the createdAt of a record: a
\* record that is in the table before and after a step has the same url
\* and the same createdAt, and an id is never given to a second record
C28_IdentityIsKept ==
    [][/\ \A x \in analyzedUrls : \A y \in analyzedUrls' :
            y.id = x.id => y.url = x.url /\ y.createdAt = x.createdAt
       /\ \A y \in analyzedUrls' :
            (\A x \in analyzedUrls : x.id # y.id) => y.id >= urlSeq]_vars

\* a record was inserted for one request and failed, and was taken up,
\* marked pending and completed for a later request: it was updated after
\* it was created and has the createdAt of its insertion
C28_Witness ==
    \E x \in analyzedUrls :
        /\ x.status = "completed"
        /\ x.createdAt > 0
        /\ x.updatedAt > x.createdAt
        /\ \E p \in Procs :
            /\ run[p].pc = "returned"
            /\ run[p].existing.id = x.id
            /\ run[p].existing.status = "failed"
            /\ run[p].existing.createdAt = x.createdAt

\* C29: a call of analyzeUrl that has not raised and has returned has
\* returned a record, which is a record of the URL asked for and is
\* completed
C29_ReturnsACompletedRecord ==
    \A p \in Procs :
        run[p].pc = "returned"
        => /\ run[p].result # NoRow
           /\ run[p].result.id # 0
           /\ run[p].result.url = run[p].url
           /\ run[p].result.status = "completed"

\* C30: in every reachable state the urlId of every row of content_tags is
\* the id of a record of analyzed_urls
C30_TagsHaveAParent ==
    \A t \in contentTags : \E x \in analyzedUrls : x.id = t.urlId

\* a record was deleted while a call was inserting its tags: the tags
\* already stored went with it and the next insert of the loop was refused
C30_Witness ==
    \E p \in Procs :
        /\ run[p].pc = "raised"
        /\ run[p].error = ForeignKeyMsg
        /\ obs[p].tagIds # {}
        /\ \A t \in contentTags : t.id \notin obs[p].tagIds

(***************************************************************************)
(* Properties of the delivery surface.                                     *)
(***************************************************************************)
\* process p calls sendSummaryEmail in this step
SendsEmail(p) == Len(hnd'[p].emails) > Len(hnd[p].emails)

\* C31: a handler calls sendSummaryEmail only when its analyzeUrl call has
\* returned a record: the record is in the store as completed, and the tags
\* the call inserted, all those of a call that ran the tag loop, are in the
\* store as tags of that record; a handler whose call raised sends no email
C31_EmailAfterPipeline ==
    [][\A p \in Procs :
        /\ SendsEmail(p)
           => /\ run[p].pc = "returned"
              /\ run[p].result.id # 0
              /\ run[p].result \in analyzedUrls
              /\ run[p].result.status = "completed"
              /\ \A id \in obs[p].tagIds :
                    \E t \in contentTags :
                        t.id = id /\ t.urlId = run[p].result.id
              /\ (obs[p].aiCalls > 0 /\ WantsTags(run[p].options, run[p].tags))
                 => Cardinality(obs[p].tagIds) = Len(run[p].tags)
              /\ hnd'[p].emails[Len(hnd'[p].emails)].summary = run[p].result
        /\ run'[p].pc = "raised" => hnd'[p].emails = << >>]_vars

\* an email was sent for a call that fetched the page, committed the record
\* and inserted its tags
C31_Witness ==
    \E p \in Procs :
        /\ hnd[p].emails # << >>
        /\ obs[p].fetches = 1
        /\ obs[p].tagIds # {}
        /\ run[p].pc = "returned"

\* the analyzeUrl call of process p has begun and has neither returned nor
\* raised
InFlight(p) == run[p].pc \notin {"none", "returned", "raised"}

\* C32: when every operation a call awaits comes back and no delete
\* arrives, every analyzeUrl call in flight returns or raises, and whenever
\* no call is in flight no record is pending: every record is completed or
\* failed
C32_RunsTerminate ==
    /\ \A p \in Procs :
            InFlight(p) ~> run[p].pc \in {"returned", "raised"}
    /\ []((\A p \in Procs : ~InFlight(p))
           => \A r \in analyzedUrls : r.status \in {"completed", "failed"})

\* two calls for one URL have overlapped, one has returned, the other has
\* raised after it had set the record to pending again, and no call is in
\* flight
C32_Witness ==
    \E p, q \in Procs :
        /\ p # q
        /\ run[p].pc = "returned" /\ run[q].pc = "raised"
        /\ run[p].url = run[q].url
        /\ obs[p].touched
        /\ obs[q].writes >= 2
        /\ \A o \in Procs : ~InFlight(o)

\* the handler of process p, which awaited an analyzeUrl call that raised,
\* goes on in this step
HandlesFailure(p) ==
    /\ run[p].pc = "raised"
    /\ hnd[p].phase = "await"
    /\ hnd'[p] # hnd[p]

\* C33: an error raised by analyzeUrl to a handler that awaits it becomes
\* the handler's answer: POST /webhook/analyze and /webhook/analyze-and-email
\* answer 500 with error and message, the tools analyze_url and
\* email_analysis answer a content block with isError, and the batch pushes
\* a failed entry with the error for that URL, goes on, and answers 200 with
\* one entry for every URL
C33_FailuresBecomeResponses ==
    [][\A p \in Procs :
        HandlesFailure(p)
        => /\ hnd'[p].phase \in {"await", "done"}
           /\ hnd'[p].emails = << >>
           /\ req[p].kind \in {"analyze", "analyze-and-email"}
              => /\ hnd'[p].phase = "done"
                 /\ resp'[p].status = 500
                 /\ DOMAIN resp'[p].body = {"error", "message"}
                 /\ resp'[p].body.message = run[p].error
           /\ req[p].kind \in {"analyze_url", "email_analysis"}
              => /\ hnd'[p].phase = "done"
                 /\ resp'[p].isError
                 /\ Includes(resp'[p].body.message, run[p].error)
           /\ req[p].kind = "batch"
              => /\ hnd'[p].results = Append(hnd[p].results,
                        [url |-> req[p].urls[hnd[p].i], status |-> "failed",
                         error |-> run[p].error])
                 /\ hnd[p].i < Len(req[p].urls)
                    => /\ hnd'[p].phase = "await"
                       /\ run'[p].pc = "select"
                       /\ run'[p].url = req[p].urls[hnd[p].i + 1]
                 /\ hnd[p].i = Len(req[p].urls)
                    => /\ hnd'[p].phase = "done"
                       /\ resp'[p].status = 200
                       /\ resp'[p].body.batch_results = hnd'[p].results
                       /\ Len(hnd'[p].results) = Len(req[p].urls)]_vars

\* the tool email_analysis answered with an error block after its call of
\* analyzeUrl had raised
C33_Witness ==
    \E p \in Procs :
        /\ req[p].kind = "email_analysis"
        /\ hnd[p].phase = "done"
        /\ run[p].pc = "raised"
        /\ resp[p].isError
        /\ Includes(resp[p].body.message, run[p].error)

\* C34: GET /api/tags answers one entry for each tag that rows of
\* content_tags with confidence at least min_confidence carry, the larger
\* counts first, and the count of an entry is the number of those rows
\* that carry its tag
C34_TagHistogram ==
    \A p \in Procs :
        (req[p].kind = "tags" /\ hnd[p].phase = "done")
        => LET es   == resp[p].body.tags
               rows == { t \in contentTags :
                            t.confidence >= MinConfidenceOf(req[p].min_confidence) }
           IN  /\ resp[p].status = 200
               /\ { es[k].tag : k \in 1..Len(es) } = { t.tag : t \in rows }
               /\ \A j, k \in 1..Len(es) : j # k => es[j].tag # es[k].tag
               /\ \A j, k \in 1..Len(es) : j < k => es[j].count >= es[k].count
               /\ \A k \in 1..Len(es) :
                    es[k].count = Cardinality({ t \in rows : t.tag = es[k].tag })

(***************************************************************************)
(* Properties of extractContent.                                           *)
(***************************************************************************)
\* the elements of a document that are neither script nor style
Visible(es) == SelectSeq(es, LAMBDA e : e.tag \notin {"script", "style"})

\* the place of an element in the order of the regions: article, main,
\* class with "content", class with "post"; 5 for an element that is none
RegionRank(e) ==
    IF e.tag = "article" THEN 1
    ELSE IF e.tag = "main" THEN 2
    ELSE IF e.class # Null /\ Includes(e.class, "content") THEN 3
    ELSE IF e.class # Null /\ Includes(e.class, "post") THEN 4
    ELSE 5

\* the texts of elements, one space between them
RECURSIVE TextOf(_)
TextOf(es) ==
    IF es = << >> THEN ""
    ELSE IF Len(es) = 1 THEN es[1].text
    ELSE es[1].text \o " " \o TextOf(SubSeq(es, 2, Len(es)))

\* the text of the region the content is to be taken from: the first
\* element of the best rank present, or the body, or the whole document
RegionText(es) ==
    LET vis  == Visible(es)
        best == SetMin({ RegionRank(vis[k]) : k \in 1..Len(vis) } \cup {5})
        at   == { k \in 1..Len(vis) : RegionRank(vis[k]) = best }
    IN  IF best = 5 THEN TextOf(vis) ELSE vis[SetMin(at)].text

\* C35: the content extractContent returns holds no text of a script or
\* style element of the document, and is the text of the first region
\* present in the order article, main, element with "content" in its class,
\* element with "post" in its class, body, or else of the whole document
C35_RegionByPriority ==
    doc.out # NoExtract
    => /\ \A k \in 1..Len(doc.elements) :
            doc.elements[k].tag \in {"script", "style"}
            => ~Includes(doc.out.content, doc.elements[k].text)
       /\ doc.out.content = RegionText(doc.elements)

=============================================================================
